---- MODULE Spec2Model ----
(***************************************************************************)
(* Event fan-out and connection lifecycle of the forum backend.            *)
(*                                                                         *)
(* The shared store (Redis) is the only shared state.  Every awaited store *)
(* command of a handler is one step of that handler; commands issued       *)
(* together under Promise.all reach the store in any order.  Code that     *)
(* runs between two awaits runs with the step of the await it follows.     *)
(*                                                                         *)
(* Store commands have their Redis meaning: lpush puts a value at the head *)
(* of a list, lrange 0 -1 returns the list head first, a list without      *)
(* elements is an absent key, set and get round-trip a record.  nanoid()   *)
(* yields an id not used before.  No key outlives its time-to-live: the    *)
(* drain period (100 ms) and the session lifetime (15 min) are shorter     *)
(* than the expiries (30 min, 1 h).                                        *)
(*                                                                         *)
(* Store commands and writes to the client succeed, except in the          *)
(* specifications made for failures: SpecFail (a push of a fan-out         *)
(* throws), SpecWriteFail (res.write throws), SpecScanFail (a metadata     *)
(* read of the cleanup's scan throws).  A command that throws leaves the   *)
(* store as it was.                                                        *)
(*                                                                         *)
(* Init is the store once the users have signed up; SpecAuth starts from   *)
(* the empty store and reaches Init through handleCreateUser.              *)
(***************************************************************************)
EXTENDS Naturals, Integers, Sequences, FiniteSets, TLC

\* ---------------------------------------------------------------- bounds
MaxConns == 2
MaxUsers == 2
MaxBroadcasts == 2
MaxTicks == 3
MaxForums == 1
MaxUserCalls == 1
MaxLifeTicks == 2
MaxLifeCalls == 1
MaxBeats == 2
MaxRequests == 2
MaxTypingConns == 1
MaxStream == 3
MaxHandled == 4
MaxQueued == 2
MaxAuthRequests == 3
MaxWindows == 2
\* MAX_REQUESTS_PER_WINDOW, 10 in the code
MaxRequestsPerWindow == 2
\* the ids that ltrim(key, 0, 199) keeps, 200 in the code
MessagesKept == 2
QueueTtl == 3

ConnIds == 1..MaxConns
UserIds == 1..MaxUsers
BcastIds == 1..MaxBroadcasts
Forums == 1..MaxForums
TickSlots == {1, 2}
RequestIds == 1..MaxRequests

NoUser == 0
\* the user ids the store can hold: those of the clients that open sessions,
\* and one more user who only takes part in the rooms
Members == 1..(MaxUsers + 1)

\* the display name of the sign-up of user u with a plain name, as its
\* characters: no two users have the same display name
PlainName(u) == <<"u", <<"1", "2", "3", "4">>[u]>>

\* the empty string
EmptyName == <<>>

NoRecord == [exists |-> FALSE, isOnline |-> FALSE, name |-> EmptyName, messageCount |-> 0]

\* ------------------------------------------------------------ store state
VARIABLES
    users,         \* set 'users'
    userRec,       \* user:<id>            (NoRecord: key absent)
    activeUsers,   \* set 'activeUsers'
    liveSet,       \* set 'sse:connections'
    meta,          \* sse:connection:<id>  (userId; NoUser: key absent)
    queue,         \* list sse:queue:<id>  (head first; empty: key absent)
    userSession,   \* keys user:<id>:session that exist
    userForums,    \* set user:<id>:forums
    typing,        \* keys typing:<forum>:<user> that exist
    qttl,          \* time-to-live left to each key sse:queue:<id> (0: none)
    participants,  \* set forum:<id>:participants
    rateKey,       \* rate_limit:auth:<address> of one client address
    forumMsgs      \* list forum:<id>:messages (message ids, head first)

\* ---------------------------------------------------------- process state
VARIABLES
    sess,          \* the session handler of each connection id
    timers,        \* the intervals of each session that are scheduled
    ended,         \* the response stream is closed: writes reach no client
    tick,          \* in-flight messageCheck callbacks of each connection
    tickCount,     \* messageCheck callbacks started so far, all sessions
    cl,            \* cleanupConnection call of each connection
    bc,            \* broadcastEvent calls
    auth,          \* auth handler requests in flight, per user
    stream,        \* data units written to each connection's client
    rejected,      \* status of the last session request refused (0: none)
    rq,            \* requests to the messages and forums handlers in flight
    again,         \* cleanupConnection call of the close that follows an error
    appState,      \* the client's state: open room, what its room view shows
    ar             \* auth requests of that address at the rate-limit check

\* ------------------------------------------------------ history variables
VARIABLES
    enqLog,        \* ids of the events pushed on each queue, in push order
    racy,          \* events pushed between a drain's read and its delete
    quietPend,     \* events pushed while no drain ran, not yet read since
    qage,          \* time since the oldest entry of each queue was pushed
    sentLog        \* message ids pushed on each forum's list, in push order

storeVars == <<users, userRec, activeUsers, userSession, liveSet, meta, queue, userForums, typing, qttl,
              participants, rateKey, forumMsgs>>
procVars == <<sess, timers, ended, tick, tickCount, cl, bc, auth, stream, rejected, rq, again,
             appState, ar>>
sessVars == <<sess, timers, ended, tick, tickCount, cl, stream, rejected, rq, again, appState, ar>>
histVars == <<enqLog, racy, quietPend, qage, sentLog>>
vars == <<storeVars, procVars, histVars>>

\* ------------------------------------------------------------- helpers
Min(S) == CHOOSE x \in S : \A y \in S : x <= y

\* JSON.stringify(event): the string pushed on a queue, modelled as the tuple
\* of the event's fields; an event built by a handler has no top-level
\* timestamp.
Stringify(e) == <<e.type, e.roomId, e.id, e.timestamp>>

\* JSON.parse(message)
Parse(s) == [type |-> s[1], roomId |-> s[2], id |-> s[3], timestamp |-> s[4]]

\* if (!parsedMessage.timestamp) parsedMessage.timestamp = new Date()...
AddTimestamp(e) == IF e.timestamp = "absent" THEN [e EXCEPT !.timestamp = "set"] ELSE e

\* a loop that stops one message early
UnitsButLast(messages) ==
    [i \in 1..(IF messages = <<>> THEN 0 ELSE Len(messages) - 1) |-> AddTimestamp(Parse(messages[i]))]

\* the data units one drain writes for the messages it read, in loop order
Units(messages) == [i \in 1..Len(messages) |-> AddTimestamp(Parse(messages[i]))]

\* redis.expire(`sse:queue:${connId}`, seconds): 1800 in the messages handler
\* and in broadcastToUser, 3600 in the forums handler; QueueTtl is 1800 s
Expire(ver) == IF ver = "forums" THEN 2 * QueueTtl ELSE QueueTtl

\* redis.lpush(key, value): the value becomes the head of the list
Lpush(list, value) == <<value>> \o list

\* a range that starts one element late: lrange(key, 1, -1)
LrangeSkipHead(list) == IF list = <<>> THEN <<>> ELSE Tail(list)

\* redis.lrange(key, 0, -1): the whole list, head first
Lrange(list) == list

\* a write that puts the units in front of what was written before
WriteInFront(c, units) == IF ended[c] THEN stream[c] ELSE units \o stream[c]

\* res.write(...): reaches the client while the response is not closed
Write(c, units) == IF ended[c] THEN stream[c] ELSE stream[c] \o units

EventKinds == {"message"}

Event(kind, room, id) == [type |-> kind, roomId |-> room, id |-> id, timestamp |-> "absent"]

\* the 'connected' event of a session
InitialEvent(c) == [type |-> "connected", roomId |-> 0, id |-> c, timestamp |-> "set"]

\* the two setInterval timers of a session
AllTimers == {"heartbeat", "messageCheck"}

\* a session handler; beats counts the heartbeat callbacks it has started
IdleSession == [pc |-> "free", userId |-> NoUser, user |-> NoRecord, pend |-> {}, beats |-> 0]
IdleTick == [pc |-> "idle", messages |-> <<>>, must |-> {}]
\* a cleanupConnection call; bad is the id whose metadata read threw, orph
\* the ids read by smembers whose session is Open without a metadata record
IdleCleanup == [pc |-> "idle", pend |-> {}, scan |-> {}, user |-> NoRecord, via |-> "none",
                bad |-> 0, orph |-> {}, run |-> 1]
\* a fan-out call: the ids it read (snap), those it has still to handle
\* (todo), the one it is pushing to (cur), those whose push failed (failed)
\* and those it has still to remove from the live set (heal); reg records the
\* connections registered for the user when broadcastToUser was called, orph
\* the ids read whose session is Open and whose metadata record was gone.
IdleBcast == [pc |-> "idle", ver |-> "none", user |-> NoUser, snap |-> {}, todo |-> {},
              cur |-> 0, failed |-> {}, heal |-> {}, reg |-> {}, orph |-> {}, thrown |-> FALSE,
              event |-> Event("none", 0, 0)]
IdleAuth == [pc |-> "none", user |-> NoRecord, pend |-> {}]
\* a request slot: the handler's position, the body's forumId and userId, the
\* user record it read, the broadcastEvent call it awaits, the call that
\* carried its 'message' event, and its status; already is the answer of a
\* join request's sismember; redone records that the typing record it deleted
\* was written again afterwards; removed that the srem of a leave request took
\* the user out of the participant set; scan holds the user ids a create-user
\* request has still to compare with, pend its store commands in flight
IdleRequest == [pc |-> "idle", kind |-> "none", forumId |-> 0, userId |-> NoUser,
                user |-> NoRecord, already |-> FALSE, call |-> 0, sent |-> 0, redone |-> FALSE,
                removed |-> FALSE, scan |-> {}, pend |-> {}, status |-> 0]

\* the client (script.js). currentRoom is the id of the open room; NoRoom
\* stands for currentRoom = null, where currentRoom?.id is undefined. shown is
\* the messages container, count the participantCount element, typingUsers
\* the keys of appState.typingUsers. handled counts the events received and
\* skipped records that the last one was dropped by the room comparison.
NoRoom == 0
RoomIds == 1..(MaxForums + 1)
InitialAppState == [currentUser |-> 1, currentRoom |-> NoRoom, shown |-> <<>>, count |-> 0,
                    typingUsers |-> {}, handled |-> 0, skipped |-> FALSE]

\* the auth requests of one client address
AuthRequestIds == 1..MaxAuthRequests

\* the key rate_limit:auth:<address>: its value (0: the key does not exist),
\* whether it has a time-to-live, and the number of the window it is in: a
\* window ends when the key expires
NoRateKey == [count |-> 0, ttl |-> FALSE, window |-> 1]

\* an auth request: its position, the value it read and the window it read
\* it in
IdleAuthRequest == [pc |-> "idle", read |-> 0, window |-> 0, status |-> 0]

\* the session of c is Open: 'connected' is written, no cleanup has begun
IsOpen(c) == sess[c].pc = "open" /\ cl[c].pc = "idle"

\* a drain of c has read the queue and has not finished
Draining(c) == \E s \in TickSlots : tick[c][s].pc # "idle"

\* a drain of c has read a non-empty queue and has not yet deleted the key
InWindow(c) == \E s \in TickSlots : tick[c][s].pc = "del"

\* live ids of Open sessions whose metadata record does not exist
Orphans == {c \in liveSet : IsOpen(c) /\ meta[c] = NoUser}

\* the scan for a user's connections: live ids whose metadata names the user
ConnectionsForUser(u) == {c \in liveSet : meta[c] # NoUser /\ meta[c] = u}

\* ---------------------------------------------------------------- Init
\* Nothing has run yet: no handler in flight, no connection, no queue.
InitRun ==
    /\ sess = [c \in ConnIds |-> IdleSession]
    /\ timers = [c \in ConnIds |-> {}]
    /\ ended = [c \in ConnIds |-> FALSE]
    /\ tick = [c \in ConnIds |-> [s \in TickSlots |-> IdleTick]]
    /\ tickCount = 0
    /\ cl = [c \in ConnIds |-> IdleCleanup]
    /\ bc = [b \in BcastIds |-> IdleBcast]
    /\ stream = [c \in ConnIds |-> <<>>]
    /\ rejected = 0
    /\ rq = [r \in RequestIds |-> IdleRequest]
    /\ again = [c \in ConnIds |-> IdleCleanup]
    /\ appState = InitialAppState
    /\ rateKey = NoRateKey
    /\ ar = [i \in AuthRequestIds |-> IdleAuthRequest]
    /\ enqLog = [c \in ConnIds |-> <<>>]
    /\ racy = [c \in ConnIds |-> {}]
    /\ quietPend = [c \in ConnIds |-> {}]
    /\ liveSet = {}
    /\ meta = [c \in ConnIds |-> NoUser]
    /\ queue = [c \in ConnIds |-> <<>>]
    /\ qttl = [c \in ConnIds |-> 0]
    /\ qage = [c \in ConnIds |-> 0]
    /\ typing = {}

\* no message has been sent to any forum
NoMessages ==
    /\ forumMsgs = [f \in Forums |-> <<>>]
    /\ sentLog = [f \in Forums |-> <<>>]

\* The empty store: nothing has run yet, and nobody has joined a room.
InitProcs ==
    /\ InitRun
    /\ NoMessages
    /\ userForums = [u \in Members |-> {}]
    /\ participants = [f \in Forums |-> {}]

InitEmpty ==
    /\ InitProcs
    /\ users = {}
    /\ userRec = [u \in Members |-> NoRecord]
    /\ activeUsers = {}
    /\ userSession = {}
    /\ auth = [u \in UserIds |-> IdleAuth]

\* The store after some of the users have signed up.
InitSome ==
    /\ InitProcs
    /\ \E S \in SUBSET UserIds :
           /\ users = S
           /\ userRec = [u \in Members |-> [exists |-> u \in S, isOnline |-> u \in S,
                                           name |-> IF u \in S THEN PlainName(u) ELSE EmptyName,
                                           messageCount |-> 0]]
           /\ activeUsers = S
           /\ userSession = S
    /\ auth = [u \in UserIds |-> [IdleAuth EXCEPT !.pc = "idle"]]

\* handleCreateUser, the display name.  A name whose trimmed length is under 2
\* or over 50 is refused; the name stored is
\* displayName.trim().replace(/[<>]/g, '').  Names are sequences of characters.
RECURSIVE TrimStart(_)
TrimStart(name) == IF name # <<>> /\ Head(name) = " " THEN TrimStart(Tail(name)) ELSE name

RECURSIVE TrimEnd(_)
TrimEnd(name) ==
    IF name # <<>> /\ name[Len(name)] = " " THEN TrimEnd(SubSeq(name, 1, Len(name) - 1)) ELSE name

Trim(name) == TrimEnd(TrimStart(name))

IsAngle(ch) == ch \in {"<", ">"}

NotAngle(ch) == ~IsAngle(ch)

Sanitize(displayName) == SelectSeq(Trim(displayName), NotAngle)

Accepted(displayName) == Len(Trim(displayName)) >= 2 /\ Len(Trim(displayName)) <= 50

\* the display names that user u may ask for
RawNames(u) == {PlainName(u), <<"<", ">">>, <<" ", "a">>}

\* the display names that a sign-up of u leaves in the store
SignUpNames(u) == {Sanitize(raw) : raw \in {n \in RawNames(u) : Accepted(n)}}

\* the names of all users after their sign-ups: a sign-up under a name that
\* another user has is refused (409)
AllSignUpNames ==
    {names \in [Members -> UNION {SignUpNames(u) : u \in Members}] :
         /\ \A u \in Members : names[u] \in SignUpNames(u)
         /\ \A u, v \in Members : names[u] = names[v] => u = v}

\* The store after every user has signed up under a name of their choice and
\* all of them, or all but one, have joined the rooms (handleJoinForum: participants of the
\* forum and forums of the user are updated together).
InitForum ==
    /\ InitRun
    /\ NoMessages
    /\ users = Members
    /\ \E names \in AllSignUpNames :
           userRec = [u \in Members |-> [exists |-> TRUE, isOnline |-> TRUE, name |-> names[u], messageCount |-> 0]]
    /\ activeUsers = Members
    /\ userSession = Members
    /\ auth = [u \in UserIds |-> [IdleAuth EXCEPT !.pc = "idle"]]
    /\ \E S \in {T \in SUBSET Members : Cardinality(T) >= MaxUsers} :
           /\ participants = [f \in Forums |-> S]
           /\ userForums = [u \in Members |-> IF u \in S THEN Forums ELSE {}]

\* The store after the clients' users have signed up under plain names and
\* joined every room.
Joined ==
    /\ InitRun
    /\ users = UserIds
    /\ userRec = [u \in Members |-> IF u \in UserIds
                                        THEN [exists |-> TRUE, isOnline |-> TRUE, name |-> PlainName(u), messageCount |-> 0]
                                        ELSE NoRecord]
    /\ activeUsers = UserIds
    /\ userSession = UserIds
    /\ auth = [u \in UserIds |-> [IdleAuth EXCEPT !.pc = "idle"]]
    /\ participants = [f \in Forums |-> UserIds]
    /\ userForums = [u \in Members |-> IF u \in UserIds THEN Forums ELSE {}]

InitJoined == Joined /\ NoMessages

\* the ids of the messages sent before the requests of a run
OldMessageIds == {MaxRequests + 1, MaxRequests + 2}

\* The same store once MessagesKept messages have been sent to every forum,
\* one after the other: the list of each forum is full.
InitHistory ==
    /\ Joined
    /\ sentLog = [f \in Forums |-> <<MaxRequests + 1, MaxRequests + 2>>]
    /\ forumMsgs = [f \in Forums |-> <<MaxRequests + 2, MaxRequests + 1>>]

\* The store after the users have signed up: what handleCreateUser leaves for
\* each of them (record with isOnline true, member of users and activeUsers,
\* session key), and no session opened yet.
Init ==
    /\ InitProcs
    /\ users = UserIds
    /\ userRec = [u \in Members |-> IF u \in UserIds
                                        THEN [exists |-> TRUE, isOnline |-> TRUE, name |-> PlainName(u), messageCount |-> 0]
                                        ELSE NoRecord]
    /\ activeUsers = UserIds
    /\ userSession = UserIds
    /\ auth = [u \in UserIds |-> [IdleAuth EXCEPT !.pc = "idle"]]

\* ------------------------------------------------- session: registration
\* nanoid(): an id no session has used
FreshConn == Min({c \in ConnIds : sess[c].pc = "free"})

\* a check that lets every id through
UserExistsAlways(u) == u \in UserIds

\* const user = await redis.get(`user:${userId}`); if (!user) ... 404
UserExists(u) == u \in UserIds /\ userRec[u].exists

\* GET /api/sse?userId=u for a user whose record exists: the record is read,
\* the connection id allocated, and the two registration commands issued.
SessionRequest(c, u) ==
    /\ \E d \in ConnIds : sess[d].pc = "free"
    /\ c = FreshConn
    /\ UserExists(u)
    /\ sess' = [sess EXCEPT ![c] = [IdleSession EXCEPT !.pc = "register", !.userId = u,
                                                       !.user = userRec[u],
                                                       !.pend = {"sadd", "set"}]]
    /\ UNCHANGED <<storeVars, timers, ended, tick, tickCount, cl, bc, auth, stream, histVars, rejected, rq, again, appState,
                   ar>>

\* GET /api/sse without userId (u = NoUser): 400 before any store command;
\* with the id of no user record: 404 after the get.  The handler returns.
SessionReject(u) ==
    /\ u = NoUser \/ ~UserExists(u)
    /\ rejected' = (IF u = NoUser THEN 400 ELSE 404)
    /\ UNCHANGED <<storeVars, sess, timers, ended, tick, tickCount, cl, stream, bc, auth, histVars, rq, again, appState,
                   ar>>

RegDone(c, op) == IF sess[c].pend = {op} THEN "setUser" ELSE "register"

\* redis.sadd('sse:connections', connectionId)
RegSadd(c) ==
    /\ sess[c].pc = "register" /\ "sadd" \in sess[c].pend
    /\ liveSet' = liveSet \cup {c}
    /\ sess' = [sess EXCEPT ![c].pend = @ \ {"sadd"}, ![c].pc = RegDone(c, "sadd")]
    /\ UNCHANGED <<users, userRec, activeUsers, userSession, meta, queue, userForums, typing,
                   timers, ended, tick, tickCount, cl, bc, auth, stream, histVars, rejected, qttl, participants, rq, again, appState,
                   rateKey, ar, forumMsgs>>

\* redis.set(`sse:connection:${connectionId}`, {userId, ...}, {ex: 3600})
RegSetMeta(c) ==
    /\ sess[c].pc = "register" /\ "set" \in sess[c].pend
    /\ meta' = [meta EXCEPT ![c] = sess[c].userId]
    /\ sess' = [sess EXCEPT ![c].pend = @ \ {"set"}, ![c].pc = RegDone(c, "set")]
    /\ UNCHANGED <<users, userRec, activeUsers, userSession, liveSet, queue, userForums, typing,
                   timers, ended, tick, tickCount, cl, bc, auth, stream, histVars, rejected, qttl, participants, rq, again, appState,
                   rateKey, ar, forumMsgs>>

\* redis.set(`user:${userId}`, {...user, isOnline: true, ...})
SetUserOnline(c) ==
    /\ sess[c].pc = "setUser"
    /\ userRec' = [userRec EXCEPT ![sess[c].userId] = [sess[c].user EXCEPT !.isOnline = TRUE]]
    /\ sess' = [sess EXCEPT ![c].pc = "saddActive"]
    /\ UNCHANGED <<users, activeUsers, userSession, liveSet, meta, queue, userForums, typing,
                   timers, ended, tick, tickCount, cl, bc, auth, stream, histVars, rejected, qttl, participants, rq, again, appState,
                   rateKey, ar, forumMsgs>>

\* redis.sadd('activeUsers', userId); then the 'connected' event is written
\* and the heartbeat, messageCheck and timeout timers are set: Open.
SaddActive(c) ==
    /\ sess[c].pc = "saddActive"
    /\ activeUsers' = activeUsers \cup {sess[c].userId}
    /\ stream' = [stream EXCEPT ![c] = Write(c, <<InitialEvent(c)>>)]
    /\ timers' = [timers EXCEPT ![c] = AllTimers]
    /\ sess' = [sess EXCEPT ![c].pc = "open"]
    /\ UNCHANGED <<users, userRec, userSession, liveSet, meta, queue, userForums, typing,
                   ended, tick, tickCount, cl, bc, auth, histVars, rejected, qttl, participants, rq, again, appState,
                   rateKey, ar, forumMsgs>>

\* ----------------------------------------- session: failed initialization
\* A store command of the initialization throws: the catch around the whole
\* handler logs and answers 500. It issues no store command.

\* one command of the registration's Promise.all rejects; the other one, if
\* it has not completed, is still in flight
RegFail(c, op) ==
    /\ sess[c].pc = "register" /\ op \in sess[c].pend
    /\ sess' = [sess EXCEPT ![c].pend = @ \ {op}, ![c].pc = "failed"]
    /\ rejected' = 500
    /\ UNCHANGED <<storeVars, timers, ended, tick, tickCount, cl, bc, auth, stream, histVars,
                   rq, again, appState, ar>>

\* the sadd of a registration that has failed completes
RegLateSadd(c) ==
    /\ sess[c].pc = "failed" /\ "sadd" \in sess[c].pend
    /\ liveSet' = liveSet \cup {c}
    /\ sess' = [sess EXCEPT ![c].pend = @ \ {"sadd"}]
    /\ UNCHANGED <<users, userRec, activeUsers, userSession, meta, queue, userForums, typing,
                   timers, ended, tick, tickCount, cl, bc, auth, stream, histVars, rejected, qttl,
                   participants, rq, again, appState, rateKey, ar, forumMsgs>>

\* the set of the metadata of a registration that has failed completes
RegLateSetMeta(c) ==
    /\ sess[c].pc = "failed" /\ "set" \in sess[c].pend
    /\ meta' = [meta EXCEPT ![c] = sess[c].userId]
    /\ sess' = [sess EXCEPT ![c].pend = @ \ {"set"}]
    /\ UNCHANGED <<users, userRec, activeUsers, userSession, liveSet, queue, userForums, typing,
                   timers, ended, tick, tickCount, cl, bc, auth, stream, histVars, rejected, qttl,
                   participants, rq, again, appState, rateKey, ar, forumMsgs>>

\* redis.set(`user:${userId}`, updatedUser) or redis.sadd('activeUsers',
\* userId) throws
PresenceFail(c) ==
    /\ sess[c].pc \in {"setUser", "saddActive"}
    /\ sess' = [sess EXCEPT ![c].pc = "failed"]
    /\ rejected' = 500
    /\ UNCHANGED <<storeVars, timers, ended, tick, tickCount, cl, bc, auth, stream, histVars,
                   rq, again, appState, ar>>

\* ------------------------------------------------ session: drain cycle
\* A messageCheck callback fires (setInterval does not wait for the previous
\* callback) and its lrange reads the queue; every message read is parsed,
\* stamped and written in the order of the array, and the del is issued only
\* for a non-empty array.
TickRead(c, s) ==
    /\ "messageCheck" \in timers[c]
    /\ tick[c][s].pc = "idle"
    /\ \A r \in TickSlots : r < s => tick[c][r].pc # "idle"
    /\ LET messages == Lrange(queue[c])
       IN /\ tick' = [tick EXCEPT ![c][s] = [pc |-> IF messages # <<>> THEN "del" ELSE "typing",
                                             messages |-> messages, must |-> quietPend[c]]]
          /\ stream' = [stream EXCEPT ![c] = Write(c, Units(messages))]
    /\ quietPend' = [quietPend EXCEPT ![c] = {}]
    /\ UNCHANGED <<storeVars, sess, timers, ended, cl, bc, auth, enqLog, racy, rejected, qage, rq, again, appState,
                   ar, sentLog>>

\* the callbacks of a run are counted, at most MaxTicks of them start
TickLrange(c, s) ==
    /\ tickCount < MaxTicks
    /\ TickRead(c, s)
    /\ tickCount' = tickCount + 1

\* the callbacks are not counted: the interval goes on firing for as long as
\* the client has received fewer than MaxStream data units
TickAgain(c, s) ==
    /\ Len(stream[c]) < MaxStream
    /\ TickRead(c, s)
    /\ UNCHANGED tickCount

\* redis.del(`sse:queue:${connectionId}`)
TickDel(c, s) ==
    /\ tick[c][s].pc = "del"
    /\ queue' = [queue EXCEPT ![c] = <<>>]
    /\ qttl' = [qttl EXCEPT ![c] = 0]
    /\ tick' = [tick EXCEPT ![c][s].pc = "typing"]
    /\ UNCHANGED <<users, userRec, activeUsers, userSession, liveSet, meta, userForums, typing,
                   sess, timers, ended, tickCount, cl, bc, auth, stream, histVars, rejected, participants, rq, again, appState,
                   rateKey, ar, forumMsgs>>

\* sendTypingUpdates: one typing_update per forum of the user in which a user
\* other than the session's own has a typing record.  Its reads (smembers,
\* keys, get) are taken together, as when no other request comes between them.

\* a listing that includes the session's own user
TypingUsersAll(f, u) == {t \in Members : <<f, t>> \in typing}

\* JavaScript truthiness of a display name: the empty string is falsy
Truthy(name) == name # EmptyName

\* the value of the key typing:<f>:<t>: the display name of t, written by
\* setex when t started typing
TypingValue(f, t) == userRec[t].name

\* typingUsers of the loop over the keys typing:<f>:*: the own key is left
\* out, and so is a key whose value is falsy (if (userName))
TypingUsers(f, u) ==
    {t \in Members : <<f, t>> \in typing /\ t # u /\ Truthy(TypingValue(f, t))}

TypingRooms(u) == {f \in userForums[u] : TypingUsers(f, u) # {}}

RECURSIVE TypingEvents(_, _)
TypingEvents(u, rooms) ==
    IF rooms = {} THEN <<>>
    ELSE LET f == Min(rooms)
         IN <<[type |-> "typing_update", roomId |-> f, id |-> TypingUsers(f, u),
               timestamp |-> "set"]>> \o TypingEvents(u, rooms \ {f})

TickTyping(c, s) ==
    /\ tick[c][s].pc = "typing"
    /\ stream' = [stream EXCEPT ![c] = Write(c, TypingEvents(sess[c].userId, TypingRooms(sess[c].userId)))]
    /\ tick' = [tick EXCEPT ![c][s] = IdleTick]
    /\ UNCHANGED <<storeVars, sess, timers, ended, tickCount, cl, bc, auth, histVars, rejected, rq, again, appState,
                   ar>>

\* a comparison that never matches (the record compared with the id itself)
OwnedByNever(connData, userId) == connData # NoUser /\ connData = userId /\ userId = NoUser

\* a comparison that matches every record: connData alone
OwnedByAny(connData, userId) == connData # NoUser

\* connData && connData.userId === userId
OwnedBy(connData, userId) == connData # NoUser /\ connData = userId

\* ------------------------------------------------- abandoned sessions, time
\* The instance that runs the session handler is stopped: its intervals and
\* its timeout are gone with it, no handler of req 'close' runs, and the
\* store keeps what the session registered.
Abandon(c) ==
    /\ IsOpen(c)
    /\ sess' = [sess EXCEPT ![c].pc = "abandoned"]
    /\ timers' = [timers EXCEPT ![c] = {}]
    /\ ended' = [ended EXCEPT ![c] = TRUE]
    /\ UNCHANGED <<storeVars, tick, tickCount, cl, bc, auth, stream, histVars, rejected, rq, again, appState, ar>>

\* One unit of time (a third of the 1800 s of a queue's expiry) passes: every
\* queue key with a time-to-live loses one unit of it and is deleted by the
\* store when none is left.
Elapse ==
    /\ \E c \in ConnIds : qttl[c] > 0
    /\ qttl' = [c \in ConnIds |-> IF qttl[c] > 0 THEN qttl[c] - 1 ELSE 0]
    /\ queue' = [c \in ConnIds |-> IF qttl[c] = 1 THEN <<>> ELSE queue[c]]
    /\ qage' = [c \in ConnIds |-> IF qttl[c] > 1 THEN qage[c] + 1 ELSE 0]
    /\ UNCHANGED <<users, userRec, activeUsers, userSession, liveSet, meta, userForums, typing,
                   procVars, enqLog, racy, quietPend, participants, rateKey,
                   forumMsgs, sentLog>>

\* The metadata record of an Open session disappears: its time-to-live (1 h,
\* set at registration) runs out, or the key is deleted from outside.
MetaExpire(c) ==
    /\ IsOpen(c) /\ meta[c] # NoUser
    /\ meta' = [meta EXCEPT ![c] = NoUser]
    /\ UNCHANGED <<users, userRec, activeUsers, userSession, liveSet, queue, userForums, typing, qttl,
                   procVars, histVars, participants, rateKey, forumMsgs>>

\* ---------------------------------------------------- session: heartbeat
\* the keep-alive comment ': heartbeat <now>'
KeepAlive == [type |-> "heartbeat", roomId |-> 0, id |-> 0, timestamp |-> "set"]

\* a key that holds a hash with the one field written by hset: no userId
HashOnly == MaxUsers + 1

\* redis.hset(key, 'lastHeartbeat', now): the key of a record written by
\* redis.set holds a string, and HSET on a string key is refused (WRONGTYPE);
\* on an absent key it creates a hash.
Hset(connData) ==
    IF connData = NoUser \/ connData = HashOnly
    THEN [ok |-> TRUE, value |-> HashOnly]
    ELSE [ok |-> FALSE, value |-> connData]

\* A heartbeat callback: the keep-alive is written, then the hset is awaited;
\* if it throws, the catch clears the heartbeat interval.
HeartbeatTick(c) ==
    /\ "heartbeat" \in timers[c]
    /\ sess[c].beats < MaxBeats
    /\ stream' = [stream EXCEPT ![c] = Write(c, <<KeepAlive>>)]
    /\ meta' = [meta EXCEPT ![c] = Hset(meta[c]).value]
    /\ timers' = [timers EXCEPT ![c] = IF Hset(meta[c]).ok THEN @ ELSE @ \ {"heartbeat"}]
    /\ sess' = [sess EXCEPT ![c].beats = @ + 1]
    /\ UNCHANGED <<users, userRec, activeUsers, userSession, liveSet, queue, userForums, typing,
                   ended, tick, tickCount, cl, bc, auth, histVars, rejected, qttl, participants, rq, again, appState,
                   rateKey, ar, forumMsgs>>

\* A heartbeat callback whose res.write throws: the hset is not reached, the
\* catch clears the heartbeat interval and nothing else.
HeartbeatWriteFail(c) ==
    /\ "heartbeat" \in timers[c]
    /\ sess[c].beats < MaxBeats
    /\ timers' = [timers EXCEPT ![c] = @ \ {"heartbeat"}]
    /\ sess' = [sess EXCEPT ![c].beats = @ + 1]
    /\ UNCHANGED <<storeVars, ended, tick, tickCount, cl, bc, auth, stream, histVars, rejected, rq, again, appState,
                   ar>>

\* A messageCheck callback whose res.write throws for every message read:
\* the catch inside the loop logs each one, and the del follows as usual.
TickWriteFail(c, s) ==
    /\ "messageCheck" \in timers[c]
    /\ tickCount < MaxTicks
    /\ tick[c][s].pc = "idle"
    /\ \A r \in TickSlots : r < s => tick[c][r].pc # "idle"
    /\ Lrange(queue[c]) # <<>>
    /\ tick' = [tick EXCEPT ![c][s] = [pc |-> "del", messages |-> Lrange(queue[c]),
                                       must |-> quietPend[c]]]
    /\ quietPend' = [quietPend EXCEPT ![c] = {}]
    /\ tickCount' = tickCount + 1
    /\ UNCHANGED <<storeVars, sess, timers, ended, cl, bc, auth, stream, enqLog, racy, rejected, qage, rq, again, appState,
                   ar, sentLog>>

\* ------------------------------------------------------------ broadcaster
\* a broadcaster that takes its targets from the metadata keys instead of
\* the live set it read
BcastReadMetaKeys(b, kind, room) ==
    /\ bc[b].pc = "idle"
    /\ \A a \in BcastIds : a < b => bc[a].pc # "idle"
    /\ LET targets == {c \in ConnIds : meta[c] # NoUser}
       IN bc' = [bc EXCEPT ![b] = [IdleBcast EXCEPT !.pc = IF targets = {} THEN "done" ELSE "push",
                                                    !.ver = "messages",
                                                    !.snap = liveSet, !.todo = targets,
                                                    !.event = Event(kind, room, b)]]
    /\ UNCHANGED <<storeVars, sessVars, auth, histVars>>

\* broadcastEvent(event), first await: redis.smembers('sse:connections').
\* With no connection the routine returns; otherwise one push per id read.
BcastRead(b, kind, room) ==
    /\ bc[b].pc = "idle"
    /\ \A a \in BcastIds : a < b => bc[a].pc # "idle"
    /\ bc' = [bc EXCEPT ![b] = [IdleBcast EXCEPT !.pc = IF liveSet = {} THEN "done" ELSE "push",
                                                 !.ver = "messages",
                                                 !.orph = Orphans,
                                                 !.snap = liveSet, !.todo = liveSet,
                                                 !.event = Event(kind, room, b)]]
    /\ UNCHANGED <<storeVars, sessVars, auth, histVars>>

\* redis.lpush(`sse:queue:${connId}`, JSON.stringify(event)) of one of the
\* concurrent per-connection tasks, followed by its expire.
BcastPush(b, c) ==
    /\ bc[b].pc = "push" /\ c \in bc[b].todo
    /\ queue' = [queue EXCEPT ![c] = Lpush(@, Stringify(bc[b].event))]
    /\ qttl' = [qttl EXCEPT ![c] = Expire(bc[b].ver)]
    /\ qage' = [qage EXCEPT ![c] = IF queue[c] = <<>> THEN 0 ELSE @]
    /\ bc' = [bc EXCEPT ![b].todo = @ \ {c},
                        ![b].pc = IF bc[b].todo = {c} /\ bc[b].heal = {} THEN "done" ELSE "push"]
    /\ enqLog' = [enqLog EXCEPT ![c] = Append(@, b)]
    /\ racy' = [racy EXCEPT ![c] = IF InWindow(c) THEN @ \cup {b} ELSE @]
    /\ quietPend' = [quietPend EXCEPT ![c] = IF IsOpen(c) /\ ~Draining(c) THEN @ \cup {b} ELSE @]
    /\ UNCHANGED <<users, userRec, activeUsers, userSession, liveSet, meta, userForums, typing,
                   sessVars, auth, participants, rateKey, forumMsgs, sentLog>>

\* broadcastEvent of the forums handler: the same read; it differs from the
\* messages handler's only in what follows a failed push.
BcastReadForums(b, kind, room) ==
    /\ bc[b].pc = "idle"
    /\ \A a \in BcastIds : a < b => bc[a].pc # "idle"
    /\ bc' = [bc EXCEPT ![b] = [IdleBcast EXCEPT !.pc = IF liveSet = {} THEN "done" ELSE "push",
                                                 !.ver = "forums",
                                                 !.orph = Orphans,
                                                 !.snap = liveSet, !.todo = liveSet,
                                                 !.event = Event(kind, room, b)]]
    /\ UNCHANGED <<storeVars, sessVars, auth, histVars>>

\* broadcastToUser(userId, event), first await:
\* redis.smembers('sse:connections'); the loop then takes the ids one by one.
UserBcastRead(b, u, kind, room) ==
    /\ bc[b].pc = "idle"
    /\ \A a \in BcastIds : a < b => bc[a].pc # "idle"
    /\ bc' = [bc EXCEPT ![b] = [IdleBcast EXCEPT !.pc = IF liveSet = {} THEN "done" ELSE "scan",
                                                 !.ver = "user", !.user = u,
                                                 !.reg = ConnectionsForUser(u),
                                                 !.snap = liveSet, !.todo = liveSet,
                                                 !.event = Event(kind, room, b)]]
    /\ UNCHANGED <<storeVars, sessVars, auth, histVars>>

\* one iteration of the loop: redis.get of the metadata of connId; a record
\* of the user leads to the push, anything else to the next id.
UserBcastGet(b, c) ==
    /\ bc[b].pc = "scan" /\ c \in bc[b].todo
    /\ bc' = IF OwnedBy(meta[c], bc[b].user)
             THEN [bc EXCEPT ![b].pc = "lpush", ![b].cur = c]
             ELSE [bc EXCEPT ![b].todo = @ \ {c},
                             ![b].pc = IF bc[b].todo = {c} THEN "done" ELSE "scan"]
    /\ UNCHANGED <<storeVars, sessVars, auth, histVars>>

\* redis.lpush(`sse:queue:${connId}`, JSON.stringify(event)) and its expire
UserBcastPush(b) ==
    /\ bc[b].pc = "lpush"
    /\ LET c == bc[b].cur
       IN /\ queue' = [queue EXCEPT ![c] = Lpush(@, Stringify(bc[b].event))]
          /\ qttl' = [qttl EXCEPT ![c] = Expire(bc[b].ver)]
          /\ qage' = [qage EXCEPT ![c] = IF queue[c] = <<>> THEN 0 ELSE @]
          /\ bc' = [bc EXCEPT ![b].todo = @ \ {c}, ![b].cur = 0,
                              ![b].pc = IF bc[b].todo = {c} THEN "done" ELSE "scan"]
          /\ enqLog' = [enqLog EXCEPT ![c] = Append(@, b)]
          /\ racy' = [racy EXCEPT ![c] = IF InWindow(c) THEN @ \cup {b} ELSE @]
          /\ quietPend' = [quietPend EXCEPT ![c] = IF IsOpen(c) /\ ~Draining(c) THEN @ \cup {b} ELSE @]
    /\ UNCHANGED <<users, userRec, activeUsers, userSession, liveSet, meta, userForums, typing,
                   sessVars, auth, participants, rateKey, forumMsgs, sentLog>>

\* -------------------------------------------- broadcaster: store failures
\* A store command that fails throws and leaves the store as it was.

\* a routine in which only the lpush of a task is inside a try block
SwallowedInTask(site) == site = "lpush"

\* an error thrown at this command of broadcastEvent does not reach the
\* caller: the smembers is inside the outer try block, the lpush inside the
\* try block of its task, and the rejection of a task whose catch threw (the
\* srem of the messages handler) is absorbed by Promise.allSettled
Swallowed(site) == site \in {"smembers", "lpush", "srem"}

\* what remains of a broadcastEvent call once task c has been handled
AfterTask(call, c) == IF call.todo \subseteq {c} /\ call.heal \subseteq {c} THEN "done" ELSE "push"

\* the lpush of the task of c throws.  The catch of the messages handler goes
\* on to remove c from the live set; the catch of the forums handler logs.
BcastPushFail(b, c) ==
    /\ bc[b].pc = "push" /\ c \in bc[b].todo
    /\ bc' = [bc EXCEPT ![b] =
                 IF bc[b].ver = "messages"
                 THEN [@ EXCEPT !.todo = @ \ {c}, !.failed = @ \cup {c}, !.heal = @ \cup {c},
                                !.thrown = @ \/ ~Swallowed("lpush")]
                 ELSE [@ EXCEPT !.todo = @ \ {c}, !.failed = @ \cup {c},
                                !.thrown = @ \/ ~Swallowed("lpush"),
                                !.pc = AfterTask(bc[b], c)]]
    /\ UNCHANGED <<storeVars, sessVars, auth, histVars>>

\* catch of the messages handler: await redis.srem('sse:connections', connId)
BcastHeal(b, c) ==
    /\ bc[b].pc = "push" /\ c \in bc[b].heal
    /\ liveSet' = liveSet \ {c}
    /\ bc' = [bc EXCEPT ![b].heal = @ \ {c}, ![b].pc = AfterTask(bc[b], c)]
    /\ UNCHANGED <<users, userRec, activeUsers, userSession, meta, queue, userForums, typing,
                   sessVars, auth, histVars, qttl, participants, rateKey, forumMsgs>>

\* that srem throws as well: the task rejects, Promise.allSettled absorbs it
BcastHealFail(b, c) ==
    /\ bc[b].pc = "push" /\ c \in bc[b].heal
    /\ bc' = [bc EXCEPT ![b].heal = @ \ {c}, ![b].pc = AfterTask(bc[b], c),
                        ![b].thrown = @ \/ ~Swallowed("srem")]
    /\ UNCHANGED <<storeVars, sessVars, auth, histVars>>

\* broadcastToUser: the get of an iteration throws; the one try block around
\* the loop is left, the ids not yet handled are not handled.
UserBcastGetFail(b, c) ==
    /\ bc[b].pc = "scan" /\ c \in bc[b].todo
    /\ bc' = [bc EXCEPT ![b].pc = "done", ![b].failed = @ \cup {c}]
    /\ UNCHANGED <<storeVars, sessVars, auth, histVars>>

\* broadcastToUser: the lpush of an iteration throws, with the same outcome
UserBcastPushFail(b) ==
    /\ bc[b].pc = "lpush"
    /\ bc' = [bc EXCEPT ![b].pc = "done", ![b].failed = @ \cup {bc[b].cur}, ![b].cur = 0]
    /\ UNCHANGED <<storeVars, sessVars, auth, histVars>>

\* ---------------------------------------------------- session: cleanup
\* a cleanup that leaves the id in the live set
StartCleanupNoSrem(via) == [IdleCleanup EXCEPT !.pc = "rm", !.pend = {"delMeta", "delQueue"},
                                               !.via = via]

StartCleanup(via) == [IdleCleanup EXCEPT !.pc = "rm", !.pend = {"srem", "delMeta", "delQueue"},
                                         !.via = via]

\* req 'close': the intervals and the timeout are cleared and
\* cleanupConnection is called.
Close(c) ==
    /\ sess[c].pc = "open" /\ cl[c].pc = "idle"
    /\ timers' = [timers EXCEPT ![c] = {}]
    /\ ended' = [ended EXCEPT ![c] = TRUE]
    /\ cl' = [cl EXCEPT ![c] = StartCleanup("close")]
    /\ UNCHANGED <<storeVars, sess, tick, tickCount, bc, auth, stream, histVars, rejected, rq, again, appState,
                   ar>>

\* connectionTimeout fires: cleanupConnection is called with the intervals
\* still scheduled.
Timeout(c) ==
    /\ sess[c].pc = "open" /\ cl[c].pc = "idle"
    /\ cl' = [cl EXCEPT ![c] = StartCleanup("timeout")]
    /\ UNCHANGED <<storeVars, sess, timers, ended, tick, tickCount, bc, auth, stream, histVars, rejected, rq, again, appState,
                   ar>>

RmDone(c, op) == IF cl[c].pend = {op} THEN "smembers" ELSE "rm"

\* redis.srem('sse:connections', connectionId)
ClSrem(c) ==
    /\ cl[c].pc = "rm" /\ "srem" \in cl[c].pend
    /\ liveSet' = liveSet \ {c}
    /\ cl' = [cl EXCEPT ![c].pend = @ \ {"srem"}, ![c].pc = RmDone(c, "srem")]
    /\ UNCHANGED <<users, userRec, activeUsers, userSession, meta, queue, userForums, typing,
                   sess, timers, ended, tick, tickCount, bc, auth, stream, histVars, rejected, qttl, participants, rq, again, appState,
                   rateKey, ar, forumMsgs>>

\* redis.del(`sse:connection:${connectionId}`)
ClDelMeta(c) ==
    /\ cl[c].pc = "rm" /\ "delMeta" \in cl[c].pend
    /\ meta' = [meta EXCEPT ![c] = NoUser]
    /\ cl' = [cl EXCEPT ![c].pend = @ \ {"delMeta"}, ![c].pc = RmDone(c, "delMeta")]
    /\ UNCHANGED <<users, userRec, activeUsers, userSession, liveSet, queue, userForums, typing,
                   sess, timers, ended, tick, tickCount, bc, auth, stream, histVars, rejected, qttl, participants, rq, again, appState,
                   rateKey, ar, forumMsgs>>

\* redis.del(`sse:queue:${connectionId}`)
ClDelQueue(c) ==
    /\ cl[c].pc = "rm" /\ "delQueue" \in cl[c].pend
    /\ queue' = [queue EXCEPT ![c] = <<>>]
    /\ qttl' = [qttl EXCEPT ![c] = 0]
    /\ cl' = [cl EXCEPT ![c].pend = @ \ {"delQueue"}, ![c].pc = RmDone(c, "delQueue")]
    /\ UNCHANGED <<users, userRec, activeUsers, userSession, liveSet, meta, userForums, typing,
                   sess, timers, ended, tick, tickCount, bc, auth, stream, histVars, rejected, participants, rq, again, appState,
                   rateKey, ar, forumMsgs>>

\* const allConnections = await redis.smembers('sse:connections')
ClSmembers(c) ==
    /\ cl[c].pc = "smembers"
    /\ cl' = [cl EXCEPT ![c].scan = liveSet, ![c].orph = Orphans,
                        ![c].pc = IF liveSet = {} THEN "getUser" ELSE "scan"]
    /\ UNCHANGED <<storeVars, sess, timers, ended, tick, tickCount, bc, auth, stream, histVars, rejected, rq, again, appState,
                   ar>>

\* the cleanup has run to its end: after the timeout's cleanup the response
\* is ended (res.end()); after the close handler's the session is Closed.
Finished(c) == IF cl[c].via = "timeout" THEN "ended" ELSE "done"

\* one iteration of the loop over allConnections: redis.get of the metadata
\* of connId; a record of the same user ends the loop and the cleanup.
ClScanGet(c, d) ==
    /\ cl[c].pc = "scan" /\ d \in cl[c].scan
    /\ IF OwnedBy(meta[d], sess[c].userId)
       THEN /\ cl' = [cl EXCEPT ![c].scan = {}, ![c].pc = Finished(c)]
            /\ ended' = [ended EXCEPT ![c] = TRUE]
       ELSE /\ cl' = [cl EXCEPT ![c].scan = @ \ {d},
                                ![c].pc = IF cl[c].scan = {d} THEN "getUser" ELSE "scan"]
            /\ UNCHANGED ended
    /\ UNCHANGED <<storeVars, sess, timers, tick, tickCount, bc, auth, stream, histVars, rejected, rq, again, appState,
                   ar>>

\* the redis.get of an iteration throws: the catch of the loop is entered
ClScanGetFail(c, d) ==
    /\ cl[c].pc = "scan" /\ d \in cl[c].scan
    /\ cl' = [cl EXCEPT ![c].pc = "healSrem", ![c].bad = d]
    /\ UNCHANGED <<storeVars, sess, timers, ended, tick, tickCount, bc, auth, stream, histVars, rejected, rq, again, appState,
                   ar>>

\* catch of the loop: await redis.srem('sse:connections', connId)
ClHealSrem(c) ==
    /\ cl[c].pc = "healSrem"
    /\ liveSet' = liveSet \ {cl[c].bad}
    /\ cl' = [cl EXCEPT ![c].pc = "healDel"]
    /\ UNCHANGED <<users, userRec, activeUsers, userSession, meta, queue, userForums, typing,
                   sess, timers, ended, tick, tickCount, bc, auth, stream, histVars, rejected, qttl, participants, rq, again, appState,
                   rateKey, ar, forumMsgs>>

\* catch of the loop: await redis.del(`sse:connection:${connId}`); the loop
\* goes on with the next id
ClHealDel(c) ==
    /\ cl[c].pc = "healDel"
    /\ meta' = [meta EXCEPT ![cl[c].bad] = NoUser]
    /\ cl' = [cl EXCEPT ![c].scan = @ \ {cl[c].bad}, ![c].bad = 0,
                        ![c].pc = IF cl[c].scan = {cl[c].bad} THEN "getUser" ELSE "scan"]
    /\ UNCHANGED <<users, userRec, activeUsers, userSession, liveSet, queue, userForums, typing,
                   sess, timers, ended, tick, tickCount, bc, auth, stream, histVars, rejected, qttl, participants, rq, again, appState,
                   rateKey, ar, forumMsgs>>

\* const user = await redis.get(`user:${userId}`)
ClGetUser(c) ==
    /\ cl[c].pc = "getUser"
    /\ cl' = [cl EXCEPT ![c].user = userRec[sess[c].userId],
                        ![c].pc = IF userRec[sess[c].userId].exists THEN "setUser" ELSE "sremActive"]
    /\ UNCHANGED <<storeVars, sess, timers, ended, tick, tickCount, bc, auth, stream, histVars, rejected, rq, again, appState,
                   ar>>

\* a presence update that inverts the flag it read
Inverted(user) == [user EXCEPT !.isOnline = ~@]

\* user.isOnline = false
Offline(user) == [user EXCEPT !.isOnline = FALSE]

\* user.isOnline = false; await redis.set(`user:${userId}`, user)
ClSetUser(c) ==
    /\ cl[c].pc = "setUser"
    /\ userRec' = [userRec EXCEPT ![sess[c].userId] = Offline(cl[c].user)]
    /\ cl' = [cl EXCEPT ![c].pc = "sremActive"]
    /\ UNCHANGED <<users, activeUsers, userSession, liveSet, meta, queue, userForums, typing,
                   sess, timers, ended, tick, tickCount, bc, auth, stream, histVars, rejected, qttl, participants, rq, again, appState,
                   rateKey, ar, forumMsgs>>

\* await redis.srem('activeUsers', userId)
ClSremActive(c) ==
    /\ cl[c].pc = "sremActive"
    /\ activeUsers' = activeUsers \ {sess[c].userId}
    /\ cl' = [cl EXCEPT ![c].pc = Finished(c)]
    /\ ended' = [ended EXCEPT ![c] = TRUE]
    /\ UNCHANGED <<users, userRec, userSession, liveSet, meta, queue, userForums, typing,
                   sess, timers, tick, tickCount, bc, auth, stream, histVars, rejected, qttl, participants, rq, again, appState,
                   rateKey, ar, forumMsgs>>

\* res.end() of the timeout has closed the request: 'close' fires, the
\* intervals are cleared and cleanupConnection runs a second time.
CloseAfterTimeout(c) ==
    /\ cl[c].pc = "ended"
    /\ timers' = [timers EXCEPT ![c] = {}]
    /\ cl' = [cl EXCEPT ![c] = [StartCleanup("close") EXCEPT !.run = 2]]
    /\ UNCHANGED <<storeVars, sess, ended, tick, tickCount, bc, auth, stream, histVars, rejected, rq, again, appState,
                   ar>>

\* ------------------------------------------ session: error, then close
\* req 'error': cleanup() is called and not awaited; the 'close' that follows
\* calls cleanup() again, so that a second cleanupConnection runs while the
\* first one may still be waiting for the store.
Error(c) ==
    /\ sess[c].pc = "open" /\ cl[c].pc = "idle"
    /\ timers' = [timers EXCEPT ![c] = {}]
    /\ ended' = [ended EXCEPT ![c] = TRUE]
    /\ cl' = [cl EXCEPT ![c] = StartCleanup("error")]
    /\ UNCHANGED <<storeVars, sess, tick, tickCount, bc, auth, stream, histVars, rejected, rq, again, appState,
                   ar>>

CloseAfterError(c) ==
    /\ cl[c].via = "error" /\ again[c].pc = "idle"
    /\ again' = [again EXCEPT ![c] = [StartCleanup("close") EXCEPT !.run = 2]]
    /\ UNCHANGED <<storeVars, sess, timers, ended, tick, tickCount, cl, bc, auth, stream, histVars,
                   rejected, rq, appState, ar>>

AgainRmDone(c, op) == IF again[c].pend = {op} THEN "smembers" ELSE "rm"

\* the commands of that second call, as in the first
AgainSrem(c) ==
    /\ again[c].pc = "rm" /\ "srem" \in again[c].pend
    /\ liveSet' = liveSet \ {c}
    /\ again' = [again EXCEPT ![c].pend = @ \ {"srem"}, ![c].pc = AgainRmDone(c, "srem")]
    /\ UNCHANGED <<users, userRec, activeUsers, userSession, meta, queue, userForums, typing, qttl,
                   participants, sess, timers, ended, tick, tickCount, cl, bc, auth, stream, histVars,
                   rejected, rq, appState, rateKey, ar, forumMsgs>>

AgainDelMeta(c) ==
    /\ again[c].pc = "rm" /\ "delMeta" \in again[c].pend
    /\ meta' = [meta EXCEPT ![c] = NoUser]
    /\ again' = [again EXCEPT ![c].pend = @ \ {"delMeta"}, ![c].pc = AgainRmDone(c, "delMeta")]
    /\ UNCHANGED <<users, userRec, activeUsers, userSession, liveSet, queue, userForums, typing, qttl,
                   participants, sess, timers, ended, tick, tickCount, cl, bc, auth, stream, histVars,
                   rejected, rq, appState, rateKey, ar, forumMsgs>>

AgainDelQueue(c) ==
    /\ again[c].pc = "rm" /\ "delQueue" \in again[c].pend
    /\ queue' = [queue EXCEPT ![c] = <<>>]
    /\ qttl' = [qttl EXCEPT ![c] = 0]
    /\ again' = [again EXCEPT ![c].pend = @ \ {"delQueue"}, ![c].pc = AgainRmDone(c, "delQueue")]
    /\ UNCHANGED <<users, userRec, activeUsers, userSession, liveSet, meta, userForums, typing,
                   participants, sess, timers, ended, tick, tickCount, cl, bc, auth, stream, histVars,
                   rejected, rq, appState, rateKey, ar, forumMsgs>>

AgainSmembers(c) ==
    /\ again[c].pc = "smembers"
    /\ again' = [again EXCEPT ![c].scan = liveSet, ![c].orph = Orphans,
                              ![c].pc = IF liveSet = {} THEN "getUser" ELSE "scan"]
    /\ UNCHANGED <<storeVars, sess, timers, ended, tick, tickCount, cl, bc, auth, stream, histVars,
                   rejected, rq, appState, ar>>

AgainScanGet(c, d) ==
    /\ again[c].pc = "scan" /\ d \in again[c].scan
    /\ again' = IF OwnedBy(meta[d], sess[c].userId)
                THEN [again EXCEPT ![c].scan = {}, ![c].pc = "done"]
                ELSE [again EXCEPT ![c].scan = @ \ {d},
                                   ![c].pc = IF again[c].scan = {d} THEN "getUser" ELSE "scan"]
    /\ UNCHANGED <<storeVars, sess, timers, ended, tick, tickCount, cl, bc, auth, stream, histVars,
                   rejected, rq, appState, ar>>

AgainGetUser(c) ==
    /\ again[c].pc = "getUser"
    /\ again' = [again EXCEPT ![c].user = userRec[sess[c].userId],
                              ![c].pc = IF userRec[sess[c].userId].exists THEN "setUser"
                                        ELSE "sremActive"]
    /\ UNCHANGED <<storeVars, sess, timers, ended, tick, tickCount, cl, bc, auth, stream, histVars,
                   rejected, rq, appState, ar>>

AgainSetUser(c) ==
    /\ again[c].pc = "setUser"
    /\ userRec' = [userRec EXCEPT ![sess[c].userId] = Offline(again[c].user)]
    /\ again' = [again EXCEPT ![c].pc = "sremActive"]
    /\ UNCHANGED <<users, activeUsers, userSession, liveSet, meta, queue, userForums, typing, qttl,
                   participants, sess, timers, ended, tick, tickCount, cl, bc, auth, stream, histVars,
                   rejected, rq, appState, rateKey, ar, forumMsgs>>

AgainSremActive(c) ==
    /\ again[c].pc = "sremActive"
    /\ activeUsers' = activeUsers \ {sess[c].userId}
    /\ again' = [again EXCEPT ![c].pc = "done"]
    /\ UNCHANGED <<users, userRec, userSession, liveSet, meta, queue, userForums, typing, qttl,
                   participants, sess, timers, ended, tick, tickCount, cl, bc, auth, stream, histVars,
                   rejected, rq, appState, rateKey, ar, forumMsgs>>

\* --------------------------------------------------------- auth handlers
\* Auth requests are followed one at a time: requests of different users
\* write different keys and commute on the sets.
NoAuthRunning == \A v \in UserIds : auth[v].pc \in {"none", "idle"}

AuthIdle(u) == auth[u].pc = "idle" /\ NoAuthRunning

\* nanoid(): a user id not used before
FreshUser == Min({u \in UserIds : auth[u].pc = "none"})

\* POST /api/auth with a valid, unused display name: the user id is allocated
\* and the four writes of the Promise.all are issued.
CreateUser(u) ==
    /\ NoAuthRunning
    /\ \E v \in UserIds : auth[v].pc = "none"
    /\ u = FreshUser
    /\ auth' = [auth EXCEPT ![u] = [pc |-> "create", user |-> NoRecord,
                                    pend |-> {"setUser", "saddUsers", "saddActive", "setSession"}]]
    /\ UNCHANGED <<storeVars, sessVars, bc, histVars>>

CuDone(u, op) == IF auth[u].pend = {op} THEN "expire" ELSE "create"

\* redis.set(`user:${userId}`, user), with isOnline: true
CuSetUser(u) ==
    /\ auth[u].pc = "create" /\ "setUser" \in auth[u].pend
    /\ userRec' = [userRec EXCEPT ![u] = [exists |-> TRUE, isOnline |-> TRUE, name |-> PlainName(u), messageCount |-> 0]]
    /\ auth' = [auth EXCEPT ![u].pend = @ \ {"setUser"}, ![u].pc = CuDone(u, "setUser")]
    /\ UNCHANGED <<users, activeUsers, userSession, liveSet, meta, queue, userForums, typing,
                   sessVars, bc, histVars, qttl, participants, rateKey, forumMsgs>>

\* redis.sadd('users', userId)
CuSaddUsers(u) ==
    /\ auth[u].pc = "create" /\ "saddUsers" \in auth[u].pend
    /\ users' = users \cup {u}
    /\ auth' = [auth EXCEPT ![u].pend = @ \ {"saddUsers"}, ![u].pc = CuDone(u, "saddUsers")]
    /\ UNCHANGED <<userRec, activeUsers, userSession, liveSet, meta, queue, userForums, typing,
                   sessVars, bc, histVars, qttl, participants, rateKey, forumMsgs>>

\* redis.sadd('activeUsers', userId)
CuSaddActive(u) ==
    /\ auth[u].pc = "create" /\ "saddActive" \in auth[u].pend
    /\ activeUsers' = activeUsers \cup {u}
    /\ auth' = [auth EXCEPT ![u].pend = @ \ {"saddActive"}, ![u].pc = CuDone(u, "saddActive")]
    /\ UNCHANGED <<users, userRec, userSession, liveSet, meta, queue, userForums, typing,
                   sessVars, bc, histVars, qttl, participants, rateKey, forumMsgs>>

\* redis.set(`user:${userId}:session`, {...}, {ex: 86400})
CuSetSession(u) ==
    /\ auth[u].pc = "create" /\ "setSession" \in auth[u].pend
    /\ userSession' = userSession \cup {u}
    /\ auth' = [auth EXCEPT ![u].pend = @ \ {"setSession"}, ![u].pc = CuDone(u, "setSession")]
    /\ UNCHANGED <<users, userRec, activeUsers, liveSet, meta, queue, userForums, typing,
                   sessVars, bc, histVars, qttl, participants, rateKey, forumMsgs>>

\* redis.expire(`user:${userId}`, 86400); the response is sent
CuExpire(u) ==
    /\ auth[u].pc = "expire"
    /\ auth' = [auth EXCEPT ![u].pc = "idle"]
    /\ UNCHANGED <<storeVars, sessVars, bc, histVars>>

\* GET /api/auth?userId=u: const user = await redis.get(`user:${userId}`)
GetUser(u) ==
    /\ AuthIdle(u)
    /\ userRec[u].exists
    /\ auth' = [auth EXCEPT ![u].pc = "guSession", ![u].user = userRec[u]]
    /\ UNCHANGED <<storeVars, sessVars, bc, histVars>>

\* the session key is read and, when it exists, written back
GuSession(u) ==
    /\ auth[u].pc = "guSession"
    /\ auth' = [auth EXCEPT ![u].pc = "guSetUser"]
    /\ UNCHANGED <<storeVars, sessVars, bc, histVars>>

\* user.isOnline = true; await redis.set(`user:${userId}`, user)
GuSetUser(u) ==
    /\ auth[u].pc = "guSetUser"
    /\ userRec' = [userRec EXCEPT ![u] = [auth[u].user EXCEPT !.isOnline = TRUE]]
    /\ auth' = [auth EXCEPT ![u].pc = "guSadd"]
    /\ UNCHANGED <<users, activeUsers, userSession, liveSet, meta, queue, userForums, typing,
                   sessVars, bc, histVars, qttl, participants, rateKey, forumMsgs>>

\* await redis.sadd('activeUsers', userId)
GuSaddActive(u) ==
    /\ auth[u].pc = "guSadd"
    /\ activeUsers' = activeUsers \cup {u}
    /\ auth' = [auth EXCEPT ![u].pc = "idle", ![u].user = NoRecord]
    /\ UNCHANGED <<users, userRec, userSession, liveSet, meta, queue, userForums, typing,
                   sessVars, bc, histVars, qttl, participants, rateKey, forumMsgs>>

\* DELETE /api/auth {userId: u}: const user = await redis.get(`user:${userId}`)
SignOut(u) ==
    /\ AuthIdle(u)
    /\ auth' = [auth EXCEPT ![u].user = userRec[u],
                            ![u].pc = IF userRec[u].exists THEN "soSetUser" ELSE "soRm",
                            ![u].pend = {"sremActive", "delSession"}]
    /\ UNCHANGED <<storeVars, sessVars, bc, histVars>>

\* user.isOnline = false; await redis.set(`user:${userId}`, user)
SoSetUser(u) ==
    /\ auth[u].pc = "soSetUser"
    /\ userRec' = [userRec EXCEPT ![u] = [auth[u].user EXCEPT !.isOnline = FALSE]]
    /\ auth' = [auth EXCEPT ![u].pc = "soRm"]
    /\ UNCHANGED <<users, activeUsers, userSession, liveSet, meta, queue, userForums, typing,
                   sessVars, bc, histVars, qttl, participants, rateKey, forumMsgs>>

SoDone(u, op) == IF auth[u].pend = {op} THEN IdleAuth ELSE [auth[u] EXCEPT !.pend = @ \ {op}]

\* redis.srem('activeUsers', userId)
SoSremActive(u) ==
    /\ auth[u].pc = "soRm" /\ "sremActive" \in auth[u].pend
    /\ activeUsers' = activeUsers \ {u}
    /\ auth' = [auth EXCEPT ![u] = [SoDone(u, "sremActive") EXCEPT !.pc = IF @ = "none" THEN "idle" ELSE @,
                                                                 !.user = NoRecord]]
    /\ UNCHANGED <<users, userRec, userSession, liveSet, meta, queue, userForums, typing,
                   sessVars, bc, histVars, qttl, participants, rateKey, forumMsgs>>

\* redis.del(`user:${userId}:session`)
SoDelSession(u) ==
    /\ auth[u].pc = "soRm" /\ "delSession" \in auth[u].pend
    /\ userSession' = userSession \ {u}
    /\ auth' = [auth EXCEPT ![u] = [SoDone(u, "delSession") EXCEPT !.pc = IF @ = "none" THEN "idle" ELSE @,
                                                                 !.user = NoRecord]]
    /\ UNCHANGED <<users, userRec, activeUsers, liveSet, meta, queue, userForums, typing,
                   sessVars, bc, histVars, qttl, participants, rateKey, forumMsgs>>

\* ---------------------------------------------- messages handler: typing
\* handleTypingIndicator(req, res): POST (kind "typing") and DELETE (kind
\* "stopTyping") of /api/messages/typing.  A body without forumId or userId
\* is answered 400 before any store command.
TypingKinds == {"typing", "stopTyping"}

TypingRequest(r, kind, f, u) ==
    /\ rq[r].pc = "idle"
    /\ \A q \in RequestIds : q < r => rq[q].pc # "idle"
    /\ rq' = [rq EXCEPT ![r] = IF f = 0 \/ u = NoUser
                               THEN [IdleRequest EXCEPT !.pc = "done", !.kind = kind, !.forumId = f,
                                                        !.userId = u, !.status = 400]
                               ELSE [IdleRequest EXCEPT !.pc = "getUser", !.kind = kind,
                                                        !.forumId = f, !.userId = u]]
    /\ UNCHANGED <<storeVars, sess, timers, ended, tick, tickCount, cl, stream, rejected, bc, auth,
                   histVars, again, appState, ar>>

\* a lookup that finds every forum
ForumExistsAlways(f) == f = f

\* const user = await redis.get(`user:${userId}`); if (!user) return 404.
\* handleSendMessage and handleJoinForum read the forum as well and answer
\* 404 without it.
ForumExists(f) == f \in Forums

\* if (!forum) ... if (!user): the request is answered 404
NotFound(r) ==
    \/ ~userRec[rq[r].userId].exists
    \/ rq[r].kind \in {"send", "join"} /\ ~ForumExists(rq[r].forumId)

RqGetUser(r) ==
    /\ rq[r].pc = "getUser"
    /\ rq' = [rq EXCEPT ![r] =
                 IF NotFound(r)
                 THEN [@ EXCEPT !.pc = "done", !.status = 404]
                 ELSE [@ EXCEPT !.pc = "sismember", !.user = userRec[rq[r].userId]]]
    /\ UNCHANGED <<storeVars, sess, timers, ended, tick, tickCount, cl, stream, rejected, bc, auth,
                   histVars, again, appState, ar>>

\* await redis.sismember(`forum:${forumId}:participants`, userId): the
\* messages handler answers 403 to a user who is not a participant; the join
\* handler skips its sadds for a user who is one
IsParticipant(f, u) == f \in Forums /\ u \in participants[f]

RqSismember(r) ==
    /\ rq[r].pc = "sismember"
    /\ rq' = [rq EXCEPT ![r] =
                 IF rq[r].kind = "join"
                 THEN [@ EXCEPT !.already = IsParticipant(rq[r].forumId, rq[r].userId),
                                !.pc = IF IsParticipant(rq[r].forumId, rq[r].userId)
                                       THEN "scard" ELSE "saddPart"]
                 ELSE IF IsParticipant(rq[r].forumId, rq[r].userId)
                 THEN [@ EXCEPT !.pc = IF rq[r].kind = "send" THEN "store" ELSE "write"]
                 ELSE [@ EXCEPT !.pc = "done", !.status = 403]]
    /\ UNCHANGED <<storeVars, sess, timers, ended, tick, tickCount, cl, stream, rejected, bc, auth,
                   histVars, again, appState, ar>>

\* the requests that have deleted the typing record of u for f
Cleared(f, u) ==
    {q \in RequestIds : /\ rq[q].kind \in {"stopTyping", "send"}
                        /\ rq[q].forumId = f /\ rq[q].userId = u
                        /\ rq[q].pc \in {"bcast", "wait", "done"}
                        /\ rq[q].status \in {0, 200, 201}}

\* await redis.setex(`typing:${forumId}:${userId}`, 5, user.displayName)
RqSetex(r) ==
    /\ rq[r].pc = "write" /\ rq[r].kind = "typing"
    /\ typing' = typing \cup {<<rq[r].forumId, rq[r].userId>>}
    /\ rq' = [q \in RequestIds |->
                 IF q = r THEN [rq[q] EXCEPT !.pc = "bcast"]
                 ELSE IF q \in Cleared(rq[r].forumId, rq[r].userId) THEN [rq[q] EXCEPT !.redone = TRUE]
                 ELSE rq[q]]
    /\ UNCHANGED <<users, userRec, activeUsers, userSession, liveSet, meta, queue, userForums,
                   qttl, participants, sess, timers, ended, tick, tickCount, cl, stream, rejected,
                   bc, auth, histVars, again, appState, rateKey, ar, forumMsgs>>

\* a delete that removes nothing
DelNothing(keys, key) == keys

\* redis.del(key)
Del(keys, key) == keys \ {key}

\* await redis.del(`typing:${forumId}:${userId}`), of a DELETE request and
\* of handleSendMessage
RqDel(r) ==
    /\ rq[r].pc = "write" /\ rq[r].kind \in {"stopTyping", "send"}
    /\ typing' = Del(typing, <<rq[r].forumId, rq[r].userId>>)
    /\ rq' = [rq EXCEPT ![r].pc = "bcast"]
    /\ UNCHANGED <<users, userRec, activeUsers, userSession, liveSet, meta, queue, userForums,
                   qttl, participants, sess, timers, ended, tick, tickCount, cl, stream, rejected,
                   bc, auth, histVars, again, appState, rateKey, ar, forumMsgs>>

\* ------------------------------------------ messages handler: send message
\* handleSendMessage(req, res).  A body without forumId, userId or text, or
\* whose text is empty once trimmed, is answered 400 before any store command.
Texts == {<<>>, <<" ">>, <<"h", "i">>}

ValidText(text) == text # <<>> /\ Len(Trim(text)) > 0 /\ Len(Trim(text)) <= 1000

SendRequest(r, f, u, text) ==
    /\ rq[r].pc = "idle"
    /\ \A q \in RequestIds : q < r => rq[q].pc # "idle"
    /\ rq' = [rq EXCEPT ![r] = IF f = 0 \/ u = NoUser \/ ~ValidText(text)
                               THEN [IdleRequest EXCEPT !.pc = "done", !.kind = "send", !.forumId = f,
                                                        !.userId = u, !.status = 400]
                               ELSE [IdleRequest EXCEPT !.pc = "getUser", !.kind = "send",
                                                        !.forumId = f, !.userId = u]]
    /\ UNCHANGED <<storeVars, sess, timers, ended, tick, tickCount, cl, stream, rejected, bc, auth,
                   histVars, again, appState, ar>>

\* the rate-limit read (the user's last message is older than 2 seconds) and
\* the Promise.all that stores the message: the set of message:<id>, the lpush
\* of the message id on forum:<id>:messages and the set of
\* user:<id>:lastMessage.  The id of the message of request r is r.
RqStore(r) ==
    /\ rq[r].pc = "store"
    /\ forumMsgs' = [forumMsgs EXCEPT ![rq[r].forumId] = Lpush(@, r)]
    /\ sentLog' = [sentLog EXCEPT ![rq[r].forumId] = Append(@, r)]
    /\ rq' = [rq EXCEPT ![r].pc = "ltrim"]
    /\ UNCHANGED <<users, userRec, activeUsers, userSession, liveSet, meta, queue, userForums,
                   typing, qttl, participants, rateKey, sess, timers, ended, tick, tickCount, cl,
                   stream, rejected, bc, auth, enqLog, racy, quietPend, qage, again, appState, ar>>

\* a trim that keeps the whole list
LtrimNothing(list, start, stop) == list

\* redis.ltrim(key, start, stop): the elements start..stop, counted from 0
Ltrim(list, start, stop) ==
    SubSeq(list, start + 1, IF Len(list) < stop + 1 THEN Len(list) ELSE stop + 1)

\* await redis.ltrim(`forum:${forumId}:messages`, 0, 199)
RqLtrim(r) ==
    /\ rq[r].pc = "ltrim"
    /\ forumMsgs' = [forumMsgs EXCEPT ![rq[r].forumId] = Ltrim(@, 0, MessagesKept - 1)]
    /\ rq' = [rq EXCEPT ![r].pc = "setUser"]
    /\ UNCHANGED <<users, userRec, activeUsers, userSession, liveSet, meta, queue, userForums,
                   typing, qttl, participants, rateKey, sess, timers, ended, tick, tickCount, cl,
                   stream, rejected, bc, auth, histVars, again, appState, ar>>

\* updatedUser.messageCount = (updatedUser.messageCount || 0) + 1
Counted(user) == [user EXCEPT !.messageCount = @ + 1]

\* the record that the handler writes back: the one it read at the start
Updated(r) == IF rq[r].kind = "send" THEN Counted(rq[r].user) ELSE rq[r].user

\* await redis.set(`user:${userId}`, updatedUser) of handleSendMessage,
\* followed by the set of the forum record, and
\* await redis.set(`user:${userId}`, user) of handleJoinForum: the record
\* read at the start, with new statistics or one more forum joined
RqSetUser(r) ==
    /\ rq[r].pc = "setUser"
    /\ userRec' = [userRec EXCEPT ![rq[r].userId] = Updated(r)]
    /\ rq' = [rq EXCEPT ![r].pc = IF rq[r].kind = "join" THEN "scard" ELSE "write"]
    /\ UNCHANGED <<users, activeUsers, userSession, liveSet, meta, queue, userForums, typing,
                   qttl, participants, sess, timers, ended, tick, tickCount, cl, stream, rejected,
                   bc, auth, histVars, again, appState, rateKey, ar, forumMsgs>>

\* the event { type: 'typing', roomId, userId, userName, isTyping }
TypingEvent(f, u, isTyping) ==
    [type |-> "typing", roomId |-> f, id |-> <<u, isTyping>>, timestamp |-> "absent"]

\* ------------------------------------------------ forums handler: join
\* handleJoinForum(req, res, forumId): 400 for a body without userId.
JoinRequest(r, f, u) ==
    /\ rq[r].pc = "idle"
    /\ \A q \in RequestIds : q < r => rq[q].pc # "idle"
    /\ rq' = [rq EXCEPT ![r] = IF u = NoUser
                               THEN [IdleRequest EXCEPT !.pc = "done", !.kind = "join", !.forumId = f,
                                                        !.userId = u, !.status = 400]
                               ELSE [IdleRequest EXCEPT !.pc = "getUser", !.kind = "join",
                                                        !.forumId = f, !.userId = u]]
    /\ UNCHANGED <<storeVars, sess, timers, ended, tick, tickCount, cl, stream, rejected, bc, auth,
                   histVars, again, appState, ar>>

\* await redis.sadd(`forum:${forumId}:participants`, userId)
RqSaddParticipants(r) ==
    /\ rq[r].pc = "saddPart"
    /\ participants' = [participants EXCEPT ![rq[r].forumId] = @ \cup {rq[r].userId}]
    /\ rq' = [rq EXCEPT ![r].pc = "saddForums"]
    /\ UNCHANGED <<users, userRec, activeUsers, userSession, liveSet, meta, queue, userForums,
                   typing, qttl, sess, timers, ended, tick, tickCount, cl, stream, rejected,
                   bc, auth, histVars, again, appState, rateKey, ar, forumMsgs>>

\* await redis.sadd(`user:${userId}:forums`, forumId)
RqSaddForums(r) ==
    /\ rq[r].pc = "saddForums"
    /\ userForums' = [userForums EXCEPT ![rq[r].userId] = @ \cup {rq[r].forumId}]
    /\ rq' = [rq EXCEPT ![r].pc = "setUser"]
    /\ UNCHANGED <<users, userRec, activeUsers, userSession, liveSet, meta, queue, participants,
                   typing, qttl, sess, timers, ended, tick, tickCount, cl, stream, rejected,
                   bc, auth, histVars, again, appState, rateKey, ar, forumMsgs>>

\* the scard of the participants and the set of the forum record; a user who
\* was a participant already is answered 200 without a broadcast
RqScard(r) ==
    /\ rq[r].pc = "scard"
    /\ rq' = [rq EXCEPT ![r] = IF rq[r].already THEN [@ EXCEPT !.pc = "done", !.status = 200]
                               ELSE [@ EXCEPT !.pc = "bcast"]]
    /\ UNCHANGED <<storeVars, sess, timers, ended, tick, tickCount, cl, stream, rejected, bc, auth,
                   histVars, again, appState, ar>>

\* --------------------------------------------- auth handler: rate limit
\* if (currentRequests >= MAX_REQUESTS_PER_WINDOW)
OverLimit(n) == n >= MaxRequestsPerWindow

\* const currentRequests = await redis.get(rateLimitKey) || 0; a request that
\* finds the limit reached is answered 429
RateGet(i) ==
    /\ ar[i].pc = "idle"
    /\ \A j \in AuthRequestIds : j < i => ar[j].pc # "idle"
    /\ ar' = [ar EXCEPT ![i] = IF OverLimit(rateKey.count)
                               THEN [pc |-> "done", read |-> rateKey.count,
                                     window |-> rateKey.window, status |-> 429]
                               ELSE [pc |-> "incr", read |-> rateKey.count,
                                     window |-> rateKey.window, status |-> 0]]
    /\ UNCHANGED <<storeVars, sess, timers, ended, tick, tickCount, cl, bc, auth, stream,
                   rejected, rq, again, appState, histVars>>

\* await redis.incr(rateLimitKey): a key that does not exist is created with
\* the value 1 and without a time-to-live
RateIncr(i) ==
    /\ ar[i].pc = "incr"
    /\ rateKey' = [rateKey EXCEPT !.count = @ + 1]
    /\ ar' = [ar EXCEPT ![i].pc = "expire"]
    /\ UNCHANGED <<users, userRec, activeUsers, userSession, liveSet, meta, queue, userForums,
                   typing, qttl, participants, sess, timers, ended, tick, tickCount, cl, bc, auth,
                   stream, rejected, rq, again, appState, histVars, forumMsgs>>

\* await redis.expire(rateLimitKey, 60): the time-to-live starts anew; the
\* request goes on to the handler of its method
RateExpire(i) ==
    /\ ar[i].pc = "expire"
    /\ rateKey' = [rateKey EXCEPT !.ttl = rateKey.count > 0]
    /\ ar' = [ar EXCEPT ![i].pc = "done", ![i].status = 200]
    /\ UNCHANGED <<users, userRec, activeUsers, userSession, liveSet, meta, queue, userForums,
                   typing, qttl, participants, sess, timers, ended, tick, tickCount, cl, bc, auth,
                   stream, rejected, rq, again, appState, histVars, forumMsgs>>

\* the time-to-live of the key is over: the store deletes it, the window ends
RateKeyExpires ==
    /\ rateKey.ttl /\ rateKey.window < MaxWindows
    /\ rateKey' = [count |-> 0, ttl |-> FALSE, window |-> rateKey.window + 1]
    /\ UNCHANGED <<users, userRec, activeUsers, userSession, liveSet, meta, queue, userForums,
                   typing, qttl, participants, procVars, histVars, forumMsgs>>

\* ------------------------------------------- auth handler: create user
\* String.prototype.toLowerCase, on the letters that the names here use
LowerChar(ch) == IF ch = "A" THEN "a" ELSE IF ch = "B" THEN "b" ELSE ch

ToLowerCase(name) == [i \in 1..Len(name) |-> LowerChar(name[i])]

\* existingUser.displayName.toLowerCase() === sanitizedName.toLowerCase()
SameName(a, b) == ToLowerCase(a) = ToLowerCase(b)

\* the display names that the create-user requests ask for
AskedNames == {<<"a", "b">>, <<"A", "b">>, <<" ", "a", "b">>, <<"c">>}

\* POST /api/auth { displayName }: 400 for a name that is refused; otherwise
\* the name is sanitized and the scan for a duplicate begins.
CreateRequest(r, displayName) ==
    /\ rq[r].pc = "idle"
    /\ \A q \in RequestIds : q < r => rq[q].pc # "idle"
    /\ rq' = [rq EXCEPT ![r] =
                 IF ~Accepted(displayName)
                 THEN [IdleRequest EXCEPT !.pc = "done", !.kind = "create", !.status = 400]
                 ELSE [IdleRequest EXCEPT !.pc = "smembersUsers", !.kind = "create",
                                          !.user = [NoRecord EXCEPT !.name = Sanitize(displayName)]]]
    /\ UNCHANGED <<storeVars, sess, timers, ended, tick, tickCount, cl, stream, rejected, bc, auth,
                   histVars, again, appState, ar>>

\* the user ids not in use: no record, and not allocated to a request
UnusedIds ==
    {u \in Members : ~userRec[u].exists /\ \A q \in RequestIds : rq[q].userId # u}

\* the scan has found no duplicate: nanoid() allocates the user id, the
\* record is built and the four writes of the Promise.all are issued
Allocate(req) ==
    [req EXCEPT !.pc = "storeUser", !.userId = Min(UnusedIds),
                !.user = [@ EXCEPT !.exists = TRUE, !.isOnline = TRUE],
                !.pend = {"setUser", "saddUsers", "saddActive", "setSession"}]

\* const existingUsers = await redis.smembers('users')
CrSmembers(r) ==
    /\ rq[r].pc = "smembersUsers"
    /\ UnusedIds # {}
    /\ rq' = [rq EXCEPT ![r] = IF users = {} THEN Allocate(@)
                               ELSE [@ EXCEPT !.pc = "scanUsers", !.scan = users]]
    /\ UNCHANGED <<storeVars, sess, timers, ended, tick, tickCount, cl, stream, rejected, bc, auth,
                   histVars, again, appState, ar>>

\* one iteration of the loop: redis.get of the record of v; a record with the
\* same name, ignoring case, ends the request with 409
CrScanGet(r, v) ==
    /\ rq[r].pc = "scanUsers" /\ v \in rq[r].scan
    /\ UnusedIds # {}
    /\ rq' = [rq EXCEPT ![r] =
                 IF userRec[v].exists /\ SameName(userRec[v].name, rq[r].user.name)
                 THEN [@ EXCEPT !.pc = "done", !.scan = {}, !.status = 409]
                 ELSE IF rq[r].scan = {v} THEN [Allocate(@) EXCEPT !.scan = {}]
                 ELSE [@ EXCEPT !.scan = @ \ {v}]]
    /\ UNCHANGED <<storeVars, sess, timers, ended, tick, tickCount, cl, stream, rejected, bc, auth,
                   histVars, again, appState, ar>>

CrDone(r, op) == IF rq[r].pend = {op} THEN "expireUser" ELSE "storeUser"

\* redis.set(`user:${userId}`, user)
CrSetUser(r) ==
    /\ rq[r].pc = "storeUser" /\ "setUser" \in rq[r].pend
    /\ userRec' = [userRec EXCEPT ![rq[r].userId] = rq[r].user]
    /\ rq' = [rq EXCEPT ![r].pend = @ \ {"setUser"}, ![r].pc = CrDone(r, "setUser")]
    /\ UNCHANGED <<users, activeUsers, userSession, liveSet, meta, queue, userForums, typing,
                   qttl, participants, sess, timers, ended, tick, tickCount, cl, stream, rejected,
                   bc, auth, histVars, again, appState, rateKey, ar, forumMsgs>>

\* redis.sadd('users', userId)
CrSaddUsers(r) ==
    /\ rq[r].pc = "storeUser" /\ "saddUsers" \in rq[r].pend
    /\ users' = users \cup {rq[r].userId}
    /\ rq' = [rq EXCEPT ![r].pend = @ \ {"saddUsers"}, ![r].pc = CrDone(r, "saddUsers")]
    /\ UNCHANGED <<userRec, activeUsers, userSession, liveSet, meta, queue, userForums, typing,
                   qttl, participants, sess, timers, ended, tick, tickCount, cl, stream, rejected,
                   bc, auth, histVars, again, appState, rateKey, ar, forumMsgs>>

\* redis.sadd('activeUsers', userId)
CrSaddActive(r) ==
    /\ rq[r].pc = "storeUser" /\ "saddActive" \in rq[r].pend
    /\ activeUsers' = activeUsers \cup {rq[r].userId}
    /\ rq' = [rq EXCEPT ![r].pend = @ \ {"saddActive"}, ![r].pc = CrDone(r, "saddActive")]
    /\ UNCHANGED <<users, userRec, userSession, liveSet, meta, queue, userForums, typing,
                   qttl, participants, sess, timers, ended, tick, tickCount, cl, stream, rejected,
                   bc, auth, histVars, again, appState, rateKey, ar, forumMsgs>>

\* redis.set(`user:${userId}:session`, {...}, {ex: 86400})
CrSetSession(r) ==
    /\ rq[r].pc = "storeUser" /\ "setSession" \in rq[r].pend
    /\ userSession' = userSession \cup {rq[r].userId}
    /\ rq' = [rq EXCEPT ![r].pend = @ \ {"setSession"}, ![r].pc = CrDone(r, "setSession")]
    /\ UNCHANGED <<users, userRec, activeUsers, liveSet, meta, queue, userForums, typing,
                   qttl, participants, sess, timers, ended, tick, tickCount, cl, stream, rejected,
                   bc, auth, histVars, again, appState, rateKey, ar, forumMsgs>>

\* redis.expire(`user:${userId}`, 86400); the user is returned with 200
CrExpire(r) ==
    /\ rq[r].pc = "expireUser"
    /\ rq' = [rq EXCEPT ![r].pc = "done", ![r].status = 200]
    /\ UNCHANGED <<storeVars, sess, timers, ended, tick, tickCount, cl, stream, rejected, bc, auth,
                   histVars, again, appState, ar>>

\* ----------------------------------------------- forums handler: leave
\* handleLeaveForum(req, res, forumId): 400 for a body without userId.
LeaveRequest(r, f, u) ==
    /\ rq[r].pc = "idle"
    /\ \A q \in RequestIds : q < r => rq[q].pc # "idle"
    /\ rq' = [rq EXCEPT ![r] = IF u = NoUser
                               THEN [IdleRequest EXCEPT !.pc = "done", !.kind = "leave", !.forumId = f,
                                                        !.userId = u, !.status = 400]
                               ELSE [IdleRequest EXCEPT !.pc = "getLeaver", !.kind = "leave",
                                                        !.forumId = f, !.userId = u]]
    /\ UNCHANGED <<storeVars, sess, timers, ended, tick, tickCount, cl, stream, rejected, bc, auth,
                   histVars, again, appState, ar>>

\* const user = await redis.get(`user:${userId}`): 404 without the record.
\* The forum record is not read.
LvGetUser(r) ==
    /\ rq[r].pc = "getLeaver"
    /\ rq' = [rq EXCEPT ![r] =
                 IF ~userRec[rq[r].userId].exists
                 THEN [@ EXCEPT !.pc = "done", !.status = 404]
                 ELSE [@ EXCEPT !.pc = "sremPart", !.user = userRec[rq[r].userId]]]
    /\ UNCHANGED <<storeVars, sess, timers, ended, tick, tickCount, cl, stream, rejected, bc, auth,
                   histVars, again, appState, ar>>

\* redis.srem(key, member) on a set: a key that does not exist is an empty set
Srem(sets, key, member) ==
    [k \in DOMAIN sets |-> IF k = key THEN sets[k] \ {member} ELSE sets[k]]

\* await redis.srem(`forum:${forumId}:participants`, userId)
LvSremParticipants(r) ==
    /\ rq[r].pc = "sremPart"
    /\ participants' = Srem(participants, rq[r].forumId, rq[r].userId)
    /\ rq' = [rq EXCEPT ![r].pc = "sremForums",
                        ![r].removed = IsParticipant(rq[r].forumId, rq[r].userId)]
    /\ UNCHANGED <<users, userRec, activeUsers, userSession, liveSet, meta, queue, userForums,
                   typing, qttl, sess, timers, ended, tick, tickCount, cl, stream, rejected,
                   bc, auth, histVars, again, appState, rateKey, ar, forumMsgs>>

\* await redis.srem(`user:${userId}:forums`, forumId)
LvSremForums(r) ==
    /\ rq[r].pc = "sremForums"
    /\ userForums' = [userForums EXCEPT ![rq[r].userId] = @ \ {rq[r].forumId}]
    /\ rq' = [rq EXCEPT ![r].pc = "scardLeave"]
    /\ UNCHANGED <<users, userRec, activeUsers, userSession, liveSet, meta, queue, participants,
                   typing, qttl, sess, timers, ended, tick, tickCount, cl, stream, rejected,
                   bc, auth, histVars, again, appState, rateKey, ar, forumMsgs>>

\* the scard of the participants; the broadcast follows without a condition
LvScard(r) ==
    /\ rq[r].pc = "scardLeave"
    /\ rq' = [rq EXCEPT ![r].pc = "bcast"]
    /\ UNCHANGED <<storeVars, sess, timers, ended, tick, tickCount, cl, stream, rejected, bc, auth,
                   histVars, again, appState, ar>>

\* the event that the request hands to broadcastEvent next: handleSendMessage
\* broadcasts the 'message' event of the call b first
NextEvent(r, b) ==
    IF rq[r].kind = "join" THEN Event("user_joined", rq[r].forumId, b)
    ELSE IF rq[r].kind = "leave" THEN Event("user_left", rq[r].forumId, b)
    ELSE IF rq[r].kind = "send" /\ rq[r].sent = 0
    THEN Event("message", rq[r].forumId, b)
    ELSE TypingEvent(rq[r].forumId, rq[r].userId, rq[r].kind = "typing")

\* the copy of broadcastEvent that the handler of the request calls
Copy(r) == IF rq[r].kind \in {"join", "leave"} THEN "forums" ELSE "messages"

\* await broadcastEvent(...): the call of the handler's broadcastEvent, up to
\* its smembers
RqBroadcast(r, b) ==
    /\ rq[r].pc = "bcast"
    /\ bc[b].pc = "idle"
    /\ \A a \in BcastIds : a < b => bc[a].pc # "idle"
    /\ bc' = [bc EXCEPT ![b] = [IdleBcast EXCEPT !.pc = IF liveSet = {} THEN "done" ELSE "push",
                                                 !.ver = Copy(r),
                                                 !.orph = Orphans,
                                                 !.snap = liveSet, !.todo = liveSet,
                                                 !.event = NextEvent(r, b)]]
    /\ rq' = [rq EXCEPT ![r].pc = "wait", ![r].call = b]
    /\ UNCHANGED <<storeVars, sess, timers, ended, tick, tickCount, cl, stream, rejected, auth,
                   histVars, again, appState, ar>>

\* the smembers of broadcastEvent throws: the routine logs and returns
RqBroadcastFail(r, b) ==
    /\ rq[r].pc = "bcast"
    /\ bc[b].pc = "idle"
    /\ \A a \in BcastIds : a < b => bc[a].pc # "idle"
    /\ bc' = [bc EXCEPT ![b] = [IdleBcast EXCEPT !.pc = "done", !.ver = Copy(r),
                                                 !.thrown = ~Swallowed("smembers"),
                                                 !.event = NextEvent(r, b)]]
    /\ rq' = [rq EXCEPT ![r].pc = "wait", ![r].call = b]
    /\ UNCHANGED <<storeVars, sess, timers, ended, tick, tickCount, cl, stream, rejected, auth,
                   histVars, again, appState, ar>>

\* broadcastEvent has returned.  handleSendMessage goes on to broadcast the
\* typing event and then returns 201; handleTypingIndicator and
\* handleJoinForum return 200.  An error that broadcastEvent let through
\* would end the request with status 500.
RqReturn(r) ==
    /\ rq[r].pc = "wait" /\ bc[rq[r].call].pc = "done"
    /\ rq' = [rq EXCEPT ![r] = IF bc[rq[r].call].thrown
                               THEN [@ EXCEPT !.pc = "done", !.status = 500]
                               ELSE IF rq[r].kind = "send" /\ rq[r].sent = 0
                               THEN [@ EXCEPT !.pc = "bcast", !.sent = rq[r].call]
                               ELSE [@ EXCEPT !.pc = "done",
                                              !.status = IF rq[r].kind = "send" THEN 201 ELSE 200]]
    /\ UNCHANGED <<storeVars, sess, timers, ended, tick, tickCount, cl, stream, rejected, bc, auth,
                   histVars, again, appState, ar>>

\* a broadcastEvent call that takes no slot of bc: it found the live set
\* empty and returned
EmptyCall == MaxBroadcasts + 1

\* await broadcastEvent(...) while the live set is empty: the smembers
\* returns no id and the call returns; the handler goes on as in RqReturn
RqBroadcastEmpty(r) ==
    /\ rq[r].pc = "bcast"
    /\ liveSet = {}
    /\ rq' = [rq EXCEPT ![r] = IF rq[r].kind = "send" /\ rq[r].sent = 0
                               THEN [@ EXCEPT !.sent = EmptyCall]
                               ELSE [@ EXCEPT !.pc = "done", !.call = EmptyCall,
                                              !.status = IF rq[r].kind = "send" THEN 201 ELSE 200]]
    /\ UNCHANGED <<storeVars, sess, timers, ended, tick, tickCount, cl, stream, rejected, bc, auth,
                   histVars, again, appState, ar>>

\* the 5 seconds of a typing record are over: the store deletes the key
TypingExpire(f, u) ==
    /\ <<f, u>> \in typing
    /\ typing' = typing \ {<<f, u>>}
    /\ UNCHANGED <<users, userRec, activeUsers, userSession, liveSet, meta, queue, userForums,
                   qttl, participants, procVars, histVars, rateKey, forumMsgs>>

\* ------------------------------------------------------- specifications
SessionNext ==
    \E c \in ConnIds :
        \/ \E u \in UserIds : SessionRequest(c, u)
        \/ RegSadd(c)
        \/ RegSetMeta(c)
        \/ SetUserOnline(c)
        \/ SaddActive(c)

DrainNext ==
    \E c \in ConnIds : \E s \in TickSlots :
        \/ TickLrange(c, s)
        \/ TickDel(c, s)
        \/ TickTyping(c, s)

BcastNext ==
    \E b \in BcastIds :
        \/ \E kind \in EventKinds : \E room \in Forums : BcastRead(b, kind, room)
        \/ \E c \in ConnIds : BcastPush(b, c)

CleanupNext ==
    \E c \in ConnIds :
        \/ Close(c)
        \/ ClSrem(c)
        \/ ClDelMeta(c)
        \/ ClDelQueue(c)
        \/ ClSmembers(c)
        \/ \E d \in ConnIds : ClScanGet(c, d)
        \/ ClGetUser(c)
        \/ ClSetUser(c)
        \/ ClSremActive(c)

TimeoutNext ==
    \E c \in ConnIds :
        \/ Timeout(c)
        \/ CloseAfterTimeout(c)

AuthNext ==
    \E u \in UserIds :
        \/ CreateUser(u)
        \/ CuSetUser(u)
        \/ CuSaddUsers(u)
        \/ CuSaddActive(u)
        \/ CuSetSession(u)
        \/ CuExpire(u)
        \/ GetUser(u)
        \/ GuSession(u)
        \/ GuSetUser(u)
        \/ GuSaddActive(u)
        \/ SignOut(u)
        \/ SoSetUser(u)
        \/ SoSremActive(u)
        \/ SoDelSession(u)

\* Sessions, their drain cycles and the broadcaster; the sessions stay Open.
Next == SessionNext \/ DrainNext \/ BcastNext

Spec == Init /\ [][Next]_vars

\* Sessions that open and close on client disconnect while broadcasts fan out.
NextClose == SessionNext \/ BcastNext \/ CleanupNext

SpecClose == Init /\ [][NextClose]_vars

\* The registry and presence under concurrent connects and disconnects.
NextRegistry == SessionNext \/ CleanupNext \/ TimeoutNext

SpecRegistry == Init /\ [][NextRegistry]_vars

\* The auth handlers and the sessions, from the empty store.
NextAuth == AuthNext \/ SessionNext \/ CleanupNext

SpecAuth == InitEmpty /\ [][NextAuth]_vars

\* broadcastToUser calls (at most MaxUserCalls of them: no handler of the
\* repository calls it) while sessions open and close on client disconnect.
UserBcastNext ==
    \E b \in BcastIds :
        \/ /\ b <= MaxUserCalls
           /\ \E u \in UserIds : \E kind \in EventKinds : \E room \in Forums : UserBcastRead(b, u, kind, room)
        \/ \E c \in ConnIds : UserBcastGet(b, c)
        \/ UserBcastPush(b)

NextUser == SessionNext \/ UserBcastNext \/ CleanupNext

SpecUser == Init /\ [][NextUser]_vars

\* The three fan-out routines with store commands that may fail, while
\* sessions register.
FailBcastNext ==
    \E b \in BcastIds :
        \/ \E kind \in EventKinds : \E room \in Forums :
               \/ BcastRead(b, kind, room)
               \/ BcastReadForums(b, kind, room)
               \/ b <= MaxUserCalls /\ \E u \in UserIds : UserBcastRead(b, u, kind, room)
        \/ \E c \in ConnIds :
               \/ BcastPush(b, c)
               \/ BcastPushFail(b, c)
               \/ BcastHeal(b, c)
               \/ BcastHealFail(b, c)
               \/ UserBcastGet(b, c)
               \/ UserBcastGetFail(b, c)
        \/ UserBcastPush(b)
        \/ UserBcastPushFail(b)

NextFail == SessionNext \/ FailBcastNext

SpecFail == Init /\ [][NextFail]_vars

\* Session requests with and without a known user id, and disconnects.
RejectNext == \E u \in UserIds \cup {NoUser} : SessionReject(u)

NextEntry == SessionNext \/ RejectNext \/ CleanupNext

SpecEntry == InitSome /\ [][NextEntry]_vars

\* An awaited store command of the session start completes: the steps of a
\* session handler that has begun are taken.
SessionStart(c) == RegSadd(c) \/ RegSetMeta(c) \/ SetUserOnline(c) \/ SaddActive(c)

SpecFair == Init /\ [][Next]_vars /\ \A c \in ConnIds : WF_vars(SessionStart(c))

\* Sessions opening and closing while a metadata read of the cleanup's scan
\* may throw.
ScanFailNext ==
    \E c \in ConnIds :
        \/ \E d \in ConnIds : ClScanGetFail(c, d)
        \/ ClHealSrem(c)
        \/ ClHealDel(c)

NextScanFail == SessionNext \/ CleanupNext \/ ScanFailNext

SpecScanFail == Init /\ [][NextScanFail]_vars

\* Sessions that are abandoned while events are fanned out and time passes.
AbandonNext == \E c \in ConnIds : Abandon(c)

NextAbandon == SessionNext \/ AbandonNext \/ BcastNext \/ Elapse

SpecAbandon == Init /\ [][NextAbandon]_vars

\* Connections opened and closed one at a time: a connect or a disconnect
\* starts only when no registration and no cleanup is in progress.
Busy ==
    \E c \in ConnIds :
        \/ sess[c].pc \in {"register", "setUser", "saddActive"}
        \/ cl[c].pc \notin {"idle", "done"}
        \/ cl[c].via = "error" /\ again[c].pc # "done"

SerialRequest(c, u) == ~Busy /\ SessionRequest(c, u)

SerialClose(c) == ~Busy /\ Close(c)

SerialTimeout(c) == ~Busy /\ Timeout(c)

NextSerial ==
    \E c \in ConnIds :
        \/ \E u \in UserIds : SerialRequest(c, u)
        \/ RegSadd(c)
        \/ RegSetMeta(c)
        \/ SetUserOnline(c)
        \/ SaddActive(c)
        \/ SerialClose(c)
        \/ SerialTimeout(c)
        \/ ClSrem(c)
        \/ ClDelMeta(c)
        \/ ClDelQueue(c)
        \/ ClSmembers(c)
        \/ \E d \in ConnIds : ClScanGet(c, d)
        \/ ClGetUser(c)
        \/ ClSetUser(c)
        \/ ClSremActive(c)
        \/ CloseAfterTimeout(c)

SpecSerial == Init /\ [][NextSerial]_vars

\* The whole life of a session, connections opened and closed one at a time:
\* registration, drain cycles, events fanned out meanwhile, and the end by
\* disconnect or by the lifetime timeout.
LifeDrainNext ==
    \E c \in ConnIds : \E s \in TickSlots :
        \/ tickCount < MaxLifeTicks /\ TickLrange(c, s)
        \/ TickDel(c, s)
        \/ TickTyping(c, s)

LifeBcastNext ==
    \E b \in BcastIds :
        \/ b <= MaxLifeCalls /\ \E kind \in EventKinds : \E room \in Forums : BcastRead(b, kind, room)
        \/ \E c \in ConnIds : BcastPush(b, c)

NextLife == NextSerial \/ LifeDrainNext \/ LifeBcastNext

SpecLife == Init /\ [][NextLife]_vars

\* The life of a session with its heartbeat.  The lifetime timeout (15 min)
\* fires after the first heartbeat (30 s).
BeatNext == \E c \in ConnIds : HeartbeatTick(c)

SerialBeatNext ==
    \E c \in ConnIds :
        \/ \E u \in UserIds : SerialRequest(c, u)
        \/ SessionStart(c)
        \/ SerialClose(c)
        \/ sess[c].beats >= 1 /\ SerialTimeout(c)
        \/ ClSrem(c)
        \/ ClDelMeta(c)
        \/ ClDelQueue(c)
        \/ ClSmembers(c)
        \/ \E d \in ConnIds : ClScanGet(c, d)
        \/ ClGetUser(c)
        \/ ClSetUser(c)
        \/ ClSremActive(c)
        \/ CloseAfterTimeout(c)

NextBeat == SerialBeatNext \/ BeatNext

SpecBeat == Init /\ [][NextBeat]_vars

\* What the runtime and the store guarantee: a timer that is due fires, an
\* awaited store command returns, and req 'close' follows res.end().  A
\* client disconnect is not guaranteed.
CleanupStep(c) ==
    \/ ClSrem(c) \/ ClDelMeta(c) \/ ClDelQueue(c) \/ ClSmembers(c)
    \/ \E d \in ConnIds : ClScanGet(c, d)
    \/ ClGetUser(c) \/ ClSetUser(c) \/ ClSremActive(c)

FairBeat ==
    \A c \in ConnIds :
        /\ WF_vars(SessionStart(c))
        /\ WF_vars(HeartbeatTick(c))
        /\ WF_vars(sess[c].beats >= 1 /\ SerialTimeout(c))
        /\ WF_vars(CleanupStep(c))
        /\ WF_vars(CloseAfterTimeout(c))

SpecBeatFair == Init /\ [][NextBeat]_vars /\ FairBeat

\* Open sessions whose writes to the client may throw, in the heartbeat and
\* in the drain cycle.
WriteFailNext ==
    \E c \in ConnIds :
        \/ HeartbeatWriteFail(c)
        \/ \E s \in TickSlots : tickCount < MaxLifeTicks /\ TickWriteFail(c, s)

NextWriteFail == SessionNext \/ BeatNext \/ WriteFailNext \/ LifeDrainNext \/ LifeBcastNext

SpecWriteFail == Init /\ [][NextWriteFail]_vars

\* Sessions whose metadata record may disappear, with broadcasts and the
\* cleanups of other sessions going on.
ExpireNext == \E c \in ConnIds : MetaExpire(c)

NextExpire == SessionNext \/ ExpireNext \/ LifeBcastNext \/ CleanupNext

SpecExpire == Init /\ [][NextExpire]_vars

\* Typing indicators: users start and stop typing, one request at a time,
\* typing records expire, and the sessions of the clients run their drain
\* cycles.
NoRequest == \A r \in RequestIds : rq[r].pc \in {"idle", "done"}

TypingNext ==
    \/ \E r \in RequestIds :
           \/ /\ NoRequest
              /\ \E kind \in TypingKinds : \E f \in Forums : \E u \in Members :
                     TypingRequest(r, kind, f, u)
           \/ RqGetUser(r)
           \/ RqSismember(r)
           \/ RqSetex(r)
           \/ RqDel(r)
           \/ \E b \in BcastIds : RqBroadcast(r, b)
           \/ RqReturn(r)
    \/ \E b \in BcastIds : \E c \in ConnIds : BcastPush(b, c)
    \/ \E f \in Forums : \E u \in Members : TypingExpire(f, u)

\* the sessions of the typing specification: at most MaxTypingConns of them
TypingSessionNext ==
    \E c \in 1..MaxTypingConns :
        \/ \E u \in UserIds : SessionRequest(c, u)
        \/ RegSadd(c)
        \/ RegSetMeta(c)
        \/ SetUserOnline(c)
        \/ SaddActive(c)

NextTyping == TypingSessionNext \/ LifeDrainNext \/ TypingNext

SpecTyping == InitForum /\ [][NextTyping]_vars

\* Typing indicators with the drain cycle firing again and again.  What the
\* runtime and the store guarantee: the interval of an open session fires, an
\* awaited store command returns, and a typing record expires.
HealDrainNext ==
    \E c \in ConnIds : \E s \in TickSlots :
        \/ TickAgain(c, s)
        \/ TickDel(c, s)
        \/ TickTyping(c, s)

NextHeal == TypingSessionNext \/ HealDrainNext \/ TypingNext

FairHeal ==
    /\ \A c \in ConnIds : WF_vars(SessionStart(c))
    /\ \A c \in ConnIds : WF_vars(\E s \in TickSlots : TickAgain(c, s) \/ TickDel(c, s) \/ TickTyping(c, s))
    /\ \A r \in RequestIds :
           WF_vars(RqGetUser(r) \/ RqSismember(r) \/ RqSetex(r) \/ RqDel(r) \/ RqReturn(r)
                   \/ \E b \in BcastIds : RqBroadcast(r, b))
    /\ WF_vars(\E b \in BcastIds : \E c \in ConnIds : BcastPush(b, c))
    /\ WF_vars(\E f \in Forums : \E u \in Members : TypingExpire(f, u))

SpecHealFair == InitForum /\ [][NextHeal]_vars /\ FairHeal

\* Requests to the messages handler that run concurrently (send message,
\* start and stop typing) while sessions register.
RequestStep(r) ==
    \/ RqGetUser(r)
    \/ RqSismember(r)
    \/ RqStore(r)
    \/ RqLtrim(r)
    \/ RqSetUser(r)
    \/ RqSetex(r)
    \/ RqDel(r)
    \/ \E b \in BcastIds : RqBroadcast(r, b)
    \/ RqReturn(r)

MessagesNext ==
    \/ \E r \in RequestIds :
           \/ \E kind \in TypingKinds : \E f \in Forums : \E u \in UserIds :
                  TypingRequest(r, kind, f, u)
           \/ \E f \in Forums : \E u \in UserIds : SendRequest(r, f, u, <<"h", "i">>)
           \/ RequestStep(r)
    \/ \E b \in BcastIds : \E c \in ConnIds : BcastPush(b, c)

\* the registration of a session: the request and the two writes of its
\* Promise.all
RegistrationNext ==
    \E c \in ConnIds :
        \/ \E u \in UserIds : SessionRequest(c, u)
        \/ RegSadd(c)
        \/ RegSetMeta(c)

NextMessages == RegistrationNext \/ MessagesNext

SpecMessages == InitJoined /\ [][NextMessages]_vars

\* Requests with valid and with invalid bodies to the forums handler (join),
\* the messages handler (send, typing) and the session handler, one request
\* to the forums or messages handler at a time, from a store in which some
\* users have signed up and nobody has joined a room.
UnknownForum == MaxForums + 1

JoinStep(r) == RqSaddParticipants(r) \/ RqSaddForums(r) \/ RqScard(r)

BadRequestNext ==
    \E r \in RequestIds :
        \/ /\ NoRequest
           /\ \E f \in Forums \cup {0, UnknownForum} : \E u \in UserIds \cup {NoUser} :
                  \/ \E kind \in TypingKinds : TypingRequest(r, kind, f, u)
                  \/ \E text \in Texts : SendRequest(r, f, u, text)
                  \/ f # 0 /\ JoinRequest(r, f, u)
        \/ RequestStep(r)
        \/ JoinStep(r)

NextReject ==
    \/ TypingSessionNext
    \/ RejectNext
    \/ BadRequestNext
    \/ \E b \in BcastIds : \E c \in ConnIds : BcastPush(b, c)

SpecReject == InitSome /\ [][NextReject]_vars

\* Join, send-message and typing requests, one at a time, whose fan-out meets
\* store commands that fail, while sessions register.
GoodRequestNext ==
    \E r \in RequestIds :
        \/ /\ NoRequest
           /\ \E f \in Forums : \E u \in UserIds :
                  \/ \E kind \in TypingKinds : TypingRequest(r, kind, f, u)
                  \/ SendRequest(r, f, u, <<"h", "i">>)
                  \/ JoinRequest(r, f, u)
        \/ RequestStep(r)
        \/ JoinStep(r)
        \/ \E b \in BcastIds : RqBroadcastFail(r, b)

FanOutFailNext ==
    \E b \in BcastIds : \E c \in ConnIds :
        \/ BcastPush(b, c)
        \/ BcastPushFail(b, c)
        \/ BcastHeal(b, c)
        \/ BcastHealFail(b, c)

NextRequestFail == SessionNext \/ GoodRequestNext \/ FanOutFailNext

SpecRequestFail == Init /\ [][NextRequestFail]_vars

\* Connections opened and closed one at a time, a connection being closed by
\* a disconnect, by the lifetime timeout and the close that follows it, or by
\* a request error and the close that follows it.
SerialError(c) == ~Busy /\ Error(c)

AgainStep(c) ==
    \/ AgainSrem(c)
    \/ AgainDelMeta(c)
    \/ AgainDelQueue(c)
    \/ AgainSmembers(c)
    \/ \E d \in ConnIds : AgainScanGet(c, d)
    \/ AgainGetUser(c)
    \/ AgainSetUser(c)
    \/ AgainSremActive(c)

ErrorNext == \E c \in ConnIds : SerialError(c) \/ CloseAfterError(c) \/ AgainStep(c)

NextTwice == NextSerial \/ ErrorNext

SpecTwice == Init /\ [][NextTwice]_vars

\* Sessions that open and close, their cleanups interleaved step by step,
\* while one send-message request at a time is in progress.
SendStep(r) ==
    \/ RqGetUser(r)
    \/ RqSismember(r)
    \/ RqStore(r)
    \/ RqLtrim(r)
    \/ RqSetUser(r)
    \/ RqDel(r)
    \/ \E b \in BcastIds : RqBroadcast(r, b)
    \/ RqReturn(r)

SendNext ==
    \/ \E f \in Forums : \E u \in UserIds : NoRequest /\ SendRequest(1, f, u, <<"h", "i">>)
    \/ SendStep(1)
    \/ \E b \in BcastIds : \E c \in ConnIds : BcastPush(b, c)

NextPresence == SessionNext \/ CleanupNext \/ SendNext

SpecPresence == InitJoined /\ [][NextPresence]_vars

\* Sessions whose initialization may fail at any of its store commands.
InitFailNext ==
    \E c \in ConnIds :
        \/ \E op \in {"sadd", "set"} : RegFail(c, op)
        \/ RegLateSadd(c)
        \/ RegLateSetMeta(c)
        \/ PresenceFail(c)

NextInitFail == SessionNext \/ InitFailNext

SpecInitFail == Init /\ [][NextInitFail]_vars

\* Join requests that run concurrently, their store commands interleaved,
\* from a store in which nobody has joined a room, while sessions register.
ConcurrentJoinNext ==
    \/ \E r \in RequestIds :
           \/ \E f \in Forums : \E u \in UserIds : JoinRequest(r, f, u)
           \/ RqGetUser(r)
           \/ RqSismember(r)
           \/ JoinStep(r)
           \/ RqSetUser(r)
           \/ \E b \in BcastIds : RqBroadcast(r, b)
           \/ RqReturn(r)
    \/ \E b \in BcastIds : \E c \in ConnIds : BcastPush(b, c)

NextJoin == SessionNext \/ ConcurrentJoinNext

SpecJoin == Init /\ [][NextJoin]_vars

\* Join and leave requests that run concurrently, for a forum that exists
\* and for one that does not, from a store in which nobody has joined a room;
\* no session is open, so that every broadcast finds an empty live set.
LeaveStep(r) == LvGetUser(r) \/ LvSremParticipants(r) \/ LvSremForums(r) \/ LvScard(r)

JoinLeaveNext ==
    \E r \in RequestIds :
        \/ \E f \in Forums : \E u \in UserIds : JoinRequest(r, f, u)
        \/ \E f \in Forums \cup {UnknownForum} : \E u \in UserIds \cup {NoUser} :
               LeaveRequest(r, f, u)
        \/ RqGetUser(r)
        \/ RqSismember(r)
        \/ JoinStep(r)
        \/ RqSetUser(r)
        \/ LeaveStep(r)
        \/ \E b \in BcastIds : RqBroadcast(r, b)
        \/ RqReturn(r)

SpecLeave == Init /\ [][JoinLeaveNext]_vars

\* Create-user requests that run concurrently, from the empty store.
CreateNext ==
    \E r \in RequestIds :
        \/ \E displayName \in AskedNames : CreateRequest(r, displayName)
        \/ CrSmembers(r)
        \/ \E v \in Members : CrScanGet(r, v)
        \/ CrSetUser(r)
        \/ CrSaddUsers(r)
        \/ CrSaddActive(r)
        \/ CrSetSession(r)
        \/ CrExpire(r)

SpecCreate == InitEmpty /\ [][CreateNext]_vars

\* Auth requests of one client address that run concurrently, at the
\* rate-limit check of the handler.
RateNext ==
    \/ \E i \in AuthRequestIds : RateGet(i) \/ RateIncr(i) \/ RateExpire(i)
    \/ RateKeyExpires

SpecRate == Init /\ [][RateNext]_vars

\* Send-message requests to one forum that run concurrently, their store
\* commands interleaved, on a forum whose message list is full; no session is
\* open.
HistoryNext ==
    \E r \in RequestIds :
        \/ \E f \in Forums : \E u \in UserIds : SendRequest(r, f, u, <<"h", "i">>)
        \/ RqGetUser(r)
        \/ RqSismember(r)
        \/ RqStore(r)
        \/ RqLtrim(r)
        \/ RqSetUser(r)
        \/ RqDel(r)
        \/ RqBroadcastEmpty(r)

SpecHistory == InitHistory /\ [][HistoryNext]_vars

\* ------------------------------------- the copies of the broadcast routine
\* "forums" and "messages" are the two broadcastEvent functions of
\* api/forums.js, "previous" and "first" the two of forum-app/api/forums.js.
Copies == {"forums", "messages", "previous", "first"}

\* the keys sse:event:<connId> that exist: no handler writes such a key
SseEventKeys == {}

\* the first version pushes only if kv.get(`sse:event:${connId}`) is truthy
ChecksEventKey(copy, c) == copy = "first" => c \in SseEventKeys

\* the queues a call of a copy leaves when no command fails: the event is
\* stringified and pushed on the queue of each id of the live set it read
Queued(copy, live, queues, event) ==
    [c \in ConnIds |-> IF c \in live /\ ChecksEventKey(copy, c)
                       THEN Lpush(queues[c], Stringify(event))
                       ELSE queues[c]]

\* the expire that follows an lpush: 3600 s in the forums handler and its
\* previous version, 1800 s in the messages handler, none in the first version
Expires(copy, live, ttl) ==
    [c \in ConnIds |-> IF c \in live /\ ChecksEventKey(copy, c) /\ copy # "first"
                       THEN (IF copy = "messages" THEN QueueTtl ELSE 2 * QueueTtl)
                       ELSE ttl[c]]

\* one call of a copy that runs to its end without a failure, taken as one
\* step; the history variables follow the step-wise broadcasts only
Broadcast(copy, kind) ==
    /\ \A c \in liveSet : Len(queue[c]) < MaxQueued
    /\ liveSet # {}
    /\ queue' = Queued(copy, liveSet, queue, Event(kind, 1, 0))
    /\ qttl' = Expires(copy, liveSet, qttl)
    /\ UNCHANGED <<users, userRec, activeUsers, userSession, liveSet, meta, userForums, typing,
                   participants, procVars, histVars, rateKey, forumMsgs>>

CopiesNext == \E copy \in Copies : \E kind \in EventKinds : Broadcast(copy, kind)

NextCopies == NextSerial \/ CopiesNext

SpecCopies == Init /\ [][NextCopies]_vars

\* ------------------------------------------------------------ the client
\* The events of the server that name a room: every one is built with
\* roomId: forumId, a forum id. userId is the user the event is about,
\* participants the count a join or leave event carries.
ServerEventTypes == {"message", "user_joined", "user_left", "typing", "typing_update"}
ServerEvents ==
    [type : ServerEventTypes, roomId : RoomIds, userId : UserIds, isTyping : BOOLEAN,
     participants : 0..MaxUsers]

\* data.roomId === appState.currentRoom?.id; no event has roomId undefined
AnyRoom(app, data) == TRUE
SameRoom(app, data) == app.currentRoom # NoRoom /\ data.roomId = app.currentRoom

\* displayMessage and addSystemMessage append an element to the container
Display(app, data) == [app EXCEPT !.shown = Append(@, <<data.type, data.roomId>>)]

\* handleTypingIndicator
HandleTypingIndicator(app, data) ==
    IF ~SameRoom(app, data) THEN app
    ELSE IF data.userId = app.currentUser THEN app
    ELSE IF data.isTyping THEN [app EXCEPT !.typingUsers = @ \cup {data.userId}]
    ELSE [app EXCEPT !.typingUsers = @ \ {data.userId}]

\* handleServerEvent: the switch has no case for 'typing_update'
HandleServerEvent(app, data) ==
    CASE data.type = "message" ->
            IF SameRoom(app, data) THEN Display(app, data) ELSE app
      [] data.type \in {"user_joined", "user_left"} ->
            IF SameRoom(app, data)
            THEN [Display(app, data) EXCEPT !.count = data.participants]
            ELSE app
      [] data.type = "typing" -> HandleTypingIndicator(app, data)
      [] OTHER -> app

\* the four event types that change the room view
RoomEventTypes == {"message", "user_joined", "user_left", "typing"}

\* eventSource.onmessage: one event is parsed and handled
OnMessage(data) ==
    /\ appState.handled < MaxHandled
    /\ appState' = [HandleServerEvent(appState, data) EXCEPT
                        !.handled = @ + 1,
                        !.skipped = data.type \in RoomEventTypes /\ ~SameRoom(appState, data)]
    /\ UNCHANGED <<storeVars, sess, timers, ended, tick, tickCount, cl, bc, auth, stream,
                   rejected, rq, again, histVars, ar>>

\* joinForum, on a 200 answer: the room opens with the participant count of
\* the answer, and loadMessages empties the container (the stored messages
\* it then displays are those of this room; they are not modelled). The
\* discussions screen, which offers the rooms, is hidden while a room is open.
JoinForumOk(f, n) ==
    /\ appState.currentRoom = NoRoom
    /\ appState' = [appState EXCEPT !.currentRoom = f, !.count = n, !.shown = <<>>,
                                    !.skipped = FALSE]
    /\ UNCHANGED <<storeVars, sess, timers, ended, tick, tickCount, cl, bc, auth, stream,
                   rejected, rq, again, histVars, ar>>

\* exitRoom: the container is emptied and currentRoom set to null; the
\* typing-users map is not touched
ExitRoom ==
    /\ appState.currentRoom # NoRoom
    /\ appState' = [appState EXCEPT !.currentRoom = NoRoom, !.shown = <<>>, !.skipped = FALSE]
    /\ UNCHANGED <<storeVars, sess, timers, ended, tick, tickCount, cl, bc, auth, stream,
                   rejected, rq, again, histVars, ar>>

ClientNext ==
    \/ \E data \in ServerEvents : OnMessage(data)
    \/ \E f \in RoomIds, n \in 1..MaxUsers : JoinForumOk(f, n)
    \/ ExitRoom

SpecClient == Init /\ [][ClientNext]_vars

\* ------------------------------------------------------ claims: helpers
\* the queued domain events among the data units written to c, in order
IsQueued(unit) == unit.type \in EventKinds

StreamIds(c) == {stream[c][i].id : i \in {k \in DOMAIN stream[c] : IsQueued(stream[c][k])}}

QueueIds(c) == {Parse(queue[c][i]).id : i \in DOMAIN queue[c]}

PushedIds(c) == {enqLog[c][i] : i \in DOMAIN enqLog[c]}

\* position of the push of event b on c's queue
PushPos(c, b) == CHOOSE i \in DOMAIN enqLog[c] : enqLog[c][i] = b

\* number of pushes of event b on c's queue
Pushes(c, b) == Cardinality({i \in DOMAIN enqLog[c] : enqLog[c][i] = b})

\* ---------------------------------------------------------------- C1
\* C1: on every connection, queued events are written to the stream in the
\* order in which they were pushed on the queue: a unit written earlier was
\* not pushed later than a unit written after it.
C1_DeliveryOrderIsEnqueueOrder ==
    \A c \in ConnIds : \A i, j \in DOMAIN stream[c] :
        (i < j /\ IsQueued(stream[c][i]) /\ IsQueued(stream[c][j]))
            => PushPos(c, stream[c][i].id) <= PushPos(c, stream[c][j].id)

\* ---------------------------------------------------------------- C2
\* C2: a broadcast pushes its event never more than once on a queue, never on
\* the queue of a connection that was not in the live set it read, and, once
\* it has returned, exactly once on the queue of every connection it read.
C2_OneCopyPerConnectionRead ==
    \A b \in BcastIds : \A c \in ConnIds :
        /\ Pushes(c, b) <= 1
        /\ c \notin bc[b].snap => Pushes(c, b) = 0
        /\ (bc[b].pc = "done" /\ c \in bc[b].snap) => Pushes(c, b) = 1

\* a returned broadcast that pushed on a connection it read and left out a
\* connection that registered after the read
C2_Witness ==
    \E b \in BcastIds : \E c, d \in ConnIds :
        /\ bc[b].pc = "done"
        /\ c \in bc[b].snap /\ Pushes(c, b) = 1
        /\ d \notin bc[b].snap /\ d \in liveSet /\ Pushes(d, b) = 0

C4_NoEventWrittenTwice ==
    \A c \in ConnIds : \A i, j \in DOMAIN stream[c] :
        (i < j /\ IsQueued(stream[c][i]) /\ IsQueued(stream[c][j]))
            => stream[c][i].id # stream[c][j].id

\* ---------------------------------------------------------------- C5
\* C5: a drain that has read the queue of an Open connection has written, for
\* every event pushed since the previous read while no drain was running, a
\* unit of the event's type with its roomId and its payload.
C5_NextDrainWritesQuietPush ==
    \A c \in ConnIds : \A s \in TickSlots :
        (tick[c][s].pc \in {"del", "typing"} /\ IsOpen(c)) =>
            \A b \in tick[c][s].must :
                \E i \in DOMAIN stream[c] :
                    /\ stream[c][i].type = bc[b].event.type
                    /\ stream[c][i].roomId = bc[b].event.roomId
                    /\ stream[c][i].id = bc[b].event.id

\* a drain of an Open connection that has written a message pushed while the
\* connection was idle
C5_Witness ==
    \E c \in ConnIds : \E s \in TickSlots : \E b \in BcastIds :
        /\ tick[c][s].pc \in {"del", "typing"} /\ IsOpen(c)
        /\ b \in tick[c][s].must
        /\ bc[b].event.type = "message"
        /\ \E i \in DOMAIN stream[c] : stream[c][i] = AddTimestamp(bc[b].event)

\* ---------------------------------------------------------------- C9
\* C9: once the cleanup of a connection has completed, its id is not in the
\* live set and neither its metadata record nor its queue key exists.
C9_CleanedUpStaysGone ==
    \A c \in ConnIds :
        cl[c].pc \in {"done", "ended"} =>
            c \notin liveSet /\ meta[c] = NoUser /\ queue[c] = <<>>

\* ---------------------------------------------------------------- C6
\* C6: a user is in activeUsers exactly when a connection whose metadata
\* names the user is in the live set.
C6_ActiveIffConnected ==
    \A u \in UserIds : u \in activeUsers <=> ConnectionsForUser(u) # {}

\* ---------------------------------------------------------------- C7
\* C7: with connections opened and closed one at a time, once the cleanup of
\* a connection of user u has completed and nothing is in progress, u is in
\* activeUsers with isOnline true if another connection of u is registered,
\* and is out of activeUsers with isOnline false if none is.
C7_SerialCloseKeepsPresence ==
    \A c \in ConnIds :
        (cl[c].pc = "done" /\ ~Busy) =>
            LET u == sess[c].userId
            IN IF ConnectionsForUser(u) # {}
               THEN u \in activeUsers /\ userRec[u].isOnline
               ELSE u \notin activeUsers /\ ~userRec[u].isOnline

\* one connection of a user cleaned up while another connection of the same
\* user is registered and the user is still online
C7_Witness ==
    \E c, d \in ConnIds :
        /\ c # d /\ cl[c].pc = "done" /\ ~Busy
        /\ sess[d].userId = sess[c].userId /\ d \in ConnectionsForUser(sess[c].userId)
        /\ sess[c].userId \in activeUsers /\ userRec[sess[c].userId].isOnline

\* ---------------------------------------------------------------- C8
\* C8: every connection id in the live set has its metadata record.
C8_LiveIdHasMetadata ==
    \A c \in liveSet : meta[c] # NoUser

\* ---------------------------------------------------------------- C10
\* C10: the scan for the connections of user u finds every connection id in
\* the live set that was registered for u.
C10_ScanFindsRegistered ==
    \A u \in UserIds : \A c \in liveSet :
        sess[c].userId = u => c \in ConnectionsForUser(u)

\* ---------------------------------------------------------------- C11
\* C11: when broadcastToUser(U, event) has returned, the event has been pushed
\* on the queue of every connection that was registered for U (id in the live
\* set, metadata record naming U) when the call was made and whose cleanup has
\* not begun, and on no queue of a connection of another user.
C11_ToUserReachesOwnOnly ==
    \A b \in BcastIds :
        (bc[b].ver = "user" /\ bc[b].pc = "done") =>
            /\ \A c \in bc[b].reg : cl[c].pc = "idle" => b \in PushedIds(c)
            /\ \A c \in ConnIds : b \in PushedIds(c) => sess[c].userId = bc[b].user

\* a call for a user has returned: it pushed on that user's open connection
\* and not on the registered connection of the other user
C11_Witness ==
    \E b \in BcastIds : \E c, d \in ConnIds :
        /\ bc[b].ver = "user" /\ bc[b].pc = "done"
        /\ c \in bc[b].reg /\ IsOpen(c) /\ b \in PushedIds(c)
        /\ d \in bc[b].snap /\ IsOpen(d) /\ sess[d].userId # bc[b].user
        /\ d \in ConnectionsForUser(sess[d].userId) /\ b \notin PushedIds(d)

\* ---------------------------------------------------------------- C12
\* the connections a fan-out call targets: every id it read from the live
\* set, and for broadcastToUser those registered for the user at the call
Targets(b) == IF bc[b].ver = "user" THEN bc[b].reg ELSE bc[b].snap

\* C12: when a fan-out call has returned and a store command failed while it
\* enqueued for one connection, the event has been pushed on the queue of
\* every other connection the call targeted.
C12_FailureSparesOthers ==
    \A b \in BcastIds :
        (bc[b].pc = "done" /\ bc[b].failed # {} /\ bc[b].failed \subseteq Targets(b)) =>
            \A c \in Targets(b) \ bc[b].failed : b \in PushedIds(c)

\* ---------------------------------------------------------------- C13
\* C13: when a broadcastEvent call (forums handler or messages handler) has
\* returned and the enqueue on connection c failed, c is not in the live set
\* and its metadata record and its queue do not exist.
C13_FailedTargetDeregistered ==
    \A b \in BcastIds : \A c \in ConnIds :
        (bc[b].ver \in {"forums", "messages"} /\ bc[b].pc = "done" /\ c \in bc[b].failed) =>
            (c \notin liveSet /\ meta[c] = NoUser /\ queue[c] = <<>>)

\* ---------------------------------------------------------------- C14
\* the connection ids allocated so far
Allocated == {c \in ConnIds : sess[c].pc # "free"}

\* C14: a session request without a user id or with the id of no user record
\* is refused: the step that refuses it allocates no connection id and leaves
\* the live set, the metadata, activeUsers, the user records and the queues
\* as they were, and a connection id is allocated only for a user whose
\* record exists.
C14_RejectedRequestChangesNothing ==
    [][ /\ rejected' # rejected =>
               /\ Allocated' = Allocated
               /\ UNCHANGED <<liveSet, meta, activeUsers, userRec, queue>>
        /\ \A c \in Allocated' \ Allocated :
               /\ sess'[c].userId \in UserIds
               /\ userRec[sess'[c].userId].exists ]_vars

\* a request for an unknown user has been refused while a session of a known
\* user is open
C14_Witness ==
    /\ rejected = 404
    /\ \E u \in UserIds : ~userRec[u].exists
    /\ \E c \in ConnIds : IsOpen(c)

\* ---------------------------------------------------------------- C15
\* C15: a session request for an existing user, once its connection id is
\* allocated, leads to Open; an Open session has its id in the live set with
\* its metadata record and its user in activeUsers; and the first data unit
\* of a stream is the 'connected' event with the connection id, written once,
\* so before every queued event and typing_update.
C15_ConnectedFirst ==
    /\ \A c \in ConnIds : (sess[c].pc = "register") ~> IsOpen(c)
    /\ [](\A c \in ConnIds :
            /\ IsOpen(c) =>
                  /\ c \in liveSet /\ meta[c] = sess[c].userId
                  /\ sess[c].userId \in activeUsers
                  /\ stream[c] # <<>>
            /\ stream[c] # <<>> =>
                  /\ stream[c][1] = InitialEvent(c)
                  /\ \A i \in 2..Len(stream[c]) : stream[c][i].type # "connected")

\* an Open session whose stream holds a queued event after 'connected'
C15_Witness ==
    \E c \in ConnIds :
        /\ IsOpen(c) /\ Len(stream[c]) >= 2
        /\ stream[c][1] = InitialEvent(c) /\ IsQueued(stream[c][2])

\* ---------------------------------------------------------------- C16
\* the session of c is Closed: its cleanup, and after a timeout the cleanup
\* of the close that follows res.end(), has returned
Closed(c) == cl[c].pc = "done"

\* C16: once a session is Closed, whatever closed it, no tick of it starts
\* (its intervals are cleared), nothing more is written to its stream, its id
\* is not in the live set, and its metadata record and its queue do not exist.
C16_ClosedIsQuietAndGone ==
    [][\A c \in ConnIds :
          Closed(c) =>
              /\ timers[c] = {}
              /\ \A s \in TickSlots : tick[c][s].pc = "idle" => tick'[c][s].pc = "idle"
              /\ stream'[c] = stream[c]
              /\ c \notin liveSet /\ meta[c] = NoUser
              /\ queue[c] = <<>>]_vars

\* ---------------------------------------------------------------- C17
\* a step of c in which a write to the client throws: a heartbeat callback
\* that ends without its keep-alive on the stream, or a drain that read
\* messages and left none of them on the stream of an open response
WriteFailed(c) ==
    \/ /\ sess'[c].beats = sess[c].beats + 1
       /\ stream'[c] = stream[c]
    \/ \E s \in TickSlots :
          /\ tick[c][s].pc = "idle" /\ tick'[c][s].pc = "del"
          /\ ~ended[c] /\ stream'[c] = stream[c]

\* C17: when a write to the client throws in a heartbeat tick or a drain
\* cycle of an Open session, the session starts closing: both intervals are
\* cancelled and the cleanup that deregisters the connection is called.
C17_WriteFailureCloses ==
    [][\A c \in ConnIds :
          (IsOpen(c) /\ WriteFailed(c)) => (timers'[c] = {} /\ cl'[c].pc # "idle")]_vars

\* ---------------------------------------------------------------- C18
\* C18: every session that is Open is eventually Closed with its id out of
\* the live set, whether or not the client disconnects: the lifetime timeout
\* fires and its cleanup runs.
C18_OpenLeadsToClosed ==
    \A c \in ConnIds : IsOpen(c) ~> (Closed(c) /\ c \notin liveSet)

\* the cleanup called by the timeout has returned and the response is ended:
\* the id is out of the live set and no disconnect has occurred
C18_Witness ==
    \E c \in ConnIds : cl[c].pc = "ended" /\ cl[c].via = "timeout" /\ c \notin liveSet

\* ---------------------------------------------------------------- C19
\* C19: a heartbeat tick of an Open session writes the keep-alive, its hset
\* updates the metadata record written at registration (the command is
\* accepted and the record is still the user's), and the heartbeat interval
\* stays scheduled for the next tick.
C19_HeartbeatRefreshesAndGoesOn ==
    [][\A c \in ConnIds :
          (IsOpen(c) /\ sess'[c].beats = sess[c].beats + 1) =>
              /\ stream'[c] = Append(stream[c], KeepAlive)
              /\ Hset(meta[c]).ok /\ meta'[c] = sess[c].userId
              /\ "heartbeat" \in timers'[c]]_vars

\* ---------------------------------------------------------------- C20
\* C20: a connection id leaves the live set, and a metadata record is
\* deleted, only in a step of the cleanup of that connection's own session:
\* the closing of a session removes nothing of another session, also when a
\* metadata read of its scan throws.
C20_CloseTouchesOwnOnly ==
    [][\A d \in ConnIds :
          ((d \in liveSet /\ d \notin liveSet') \/ (meta[d] # NoUser /\ meta'[d] = NoUser))
              => (cl[d].pc = "rm" /\ cl'[d] # cl[d])]_vars

\* ---------------------------------------------------------------- C21
\* C21: the time-to-live of the queue bounds the backlog of an abandoned
\* connection: no event stays in its queue for longer than the time-to-live
\* set when it was pushed, so the queue holds at most the events of one such
\* period, whatever the number and the spacing of the broadcasts.
C21_TtlBoundsBacklog ==
    \A c \in ConnIds :
        (sess[c].pc = "abandoned" /\ queue[c] # <<>>) => qage[c] <= QueueTtl

\* ---------------------------------------------------------------- C22
\* C22: when the metadata record of a registered connection has disappeared
\* and no disconnect has been signalled, a broadcast or a cleanup scan of
\* another session that reads the live set afterwards has, once it has
\* returned, removed the connection id from the live set.
C22_OrphanRemovedByNextPass ==
    /\ \A b \in BcastIds : \A c \in bc[b].orph :
           (bc[b].pc = "done" /\ IsOpen(c)) => c \notin liveSet
    /\ \A d \in ConnIds : \A c \in cl[d].orph :
           (cl[d].pc = "done" /\ IsOpen(c)) => c \notin liveSet

\* the data units that the step writes to the client of c
NewUnits(c) == SubSeq(stream'[c], Len(stream[c]) + 1, Len(stream'[c]))

\* the users other than u whose typing record for room f exists in the store
OthersTyping(f, u) == {t \in Members \ {u} : <<f, t>> \in typing}

\* C23: every typing_update written to a connection of user U is for a room
\* of U's forum set and lists exactly the users other than U whose typing
\* record for that room exists when the store is read.
C23_TypingUpdateExact ==
    [][\A c \in ConnIds : \A i \in 1..Len(NewUnits(c)) :
           NewUnits(c)[i].type = "typing_update" =>
               /\ NewUnits(c)[i].roomId \in userForums[sess[c].userId]
               /\ NewUnits(c)[i].id = OthersTyping(NewUnits(c)[i].roomId, sess[c].userId)]_vars

\* the typing_update units for room f among the units written to c
UpdatesFor(c, f) ==
    SelectSeq(stream[c], LAMBDA unit : unit.type = "typing_update" /\ unit.roomId = f)

\* the last snapshot of room f that the client of c received lists user a
ShownTyping(c, f, a) ==
    /\ UpdatesFor(c, f) # <<>>
    /\ a \in UpdatesFor(c, f)[Len(UpdatesFor(c, f))].id

\* the typing record of a for f is gone, and the open connection c of another
\* participant of f still shows a typing
StaleTyping(c, f, a) ==
    /\ IsOpen(c)
    /\ sess[c].userId # a
    /\ sess[c].userId \in participants[f]
    /\ <<f, a>> \notin typing
    /\ ShownTyping(c, f, a)

Stopped(r) ==
    /\ rq[r].pc = "done"
    /\ \/ rq[r].kind = "send" /\ rq[r].status = 201
       \/ rq[r].kind = "stopTyping" /\ rq[r].status = 200

\* the event of call b has been pushed on the queue of c
Enqueued(b, c) == \E i \in 1..Len(enqLog[c]) : enqLog[c][i] = b

\* C25: when a send-message or a stop-typing request of user U for forum F
\* has returned success, the typing record (F, U) does not exist unless a
\* typing signal wrote it again after the request's delete, and a typing
\* event with isTyping false for U in F has been enqueued on every connection
\* that was registered when the broadcast read the live set.
C25_StopClearsTyping ==
    \A r \in RequestIds :
        Stopped(r) =>
            /\ ~rq[r].redone => <<rq[r].forumId, rq[r].userId>> \notin typing
            /\ bc[rq[r].call].event = TypingEvent(rq[r].forumId, rq[r].userId, FALSE)
            /\ \A c \in bc[rq[r].call].snap : Enqueued(rq[r].call, c)

\* a stop-typing request has returned after a typing signal of the same user
\* for the same forum, with a connection registered
C25_Witness ==
    \E r, q \in RequestIds :
        /\ Stopped(r) /\ ~rq[r].redone
        /\ bc[rq[r].call].snap # {}
        /\ rq[q].kind = "typing" /\ rq[q].pc \in {"bcast", "wait", "done"}
        /\ rq[q].forumId = rq[r].forumId /\ rq[q].userId = rq[r].userId

\* C25 as stated: at the step at which a send-message or a stop-typing request
\* of U for F returns success, no typing record (F, U) exists and the typing
\* event with isTyping false has been enqueued on every connection of the
\* live set.
C25_StopClearsAtReturn ==
    [][\A r \in RequestIds :
           (~Stopped(r) /\ Stopped(r)') =>
               /\ <<rq[r].forumId, rq[r].userId>> \notin typing'
               /\ \A c \in liveSet' : Enqueued(rq[r].call, c)']_vars

\* the step is one of request r
StepOf(r) == rq'[r] # rq[r]

\* the step answers request r with a validation or a not-found error
Refuses(r) == rq'[r].status \in {400, 404} /\ rq[r].status = 0

\* C26: a request to the forums, messages or session handlers that is
\* answered 400 or 404 leaves the store unchanged: the answer is given from
\* the entry of the handler or after its first reads, and no step the handler
\* took up to there wrote a key, changed a set or a list, or enqueued an event.
\* A send or join request for a forum that does not exist gets no further
\* than those reads.
C26_RefusedRequestWritesNothing ==
    [][ /\ \A r \in RequestIds :
               /\ Refuses(r) => rq[r].pc \in {"idle", "getUser"}
               /\ StepOf(r) /\ rq[r].pc \in {"idle", "getUser"} => UNCHANGED <<storeVars, enqLog, bc>>
               /\ rq'[r].kind \in {"send", "join"} /\ rq'[r].forumId = UnknownForum =>
                      rq'[r].pc \in {"getUser", "done"} /\ rq'[r].status \in {0, 400, 404}
        /\ rejected' # rejected => UNCHANGED <<storeVars, enqLog, bc>> ]_vars

\* a send-message request for an unknown forum has been answered 404 after a
\* join request was answered 200, and a session request was refused
C26_Witness ==
    /\ \E r, q \in RequestIds :
           /\ rq[r].kind = "send" /\ rq[r].status = 404 /\ rq[r].forumId = UnknownForum
           /\ rq[q].kind = "join" /\ rq[q].status = 200
    /\ rejected \in {400, 404}

\* C27: a request that has committed its own state change and called the
\* fan-out ends with its success status (200, or 201 for a message),
\* whatever store command failed inside the fan-out.
C27_FanOutFailureNotFatal ==
    \A r \in RequestIds :
        (rq[r].pc = "done" /\ rq[r].call # 0) => rq[r].status = (IF rq[r].kind = "send" THEN 201 ELSE 200)

\* a join request has returned 200 after an enqueue of its fan-out failed
\* (forums handler), and a typing request has returned 200 after the smembers
\* of its fan-out failed while a connection was registered (messages handler)
C27_Witness ==
    \E r, q \in RequestIds :
        /\ rq[r].kind = "join" /\ rq[r].pc = "done" /\ rq[r].status = 200
        /\ rq[r].call # 0 /\ bc[rq[r].call].failed # {}
        /\ rq[q].kind \in TypingKinds /\ rq[q].pc = "done" /\ rq[q].status = 200
        /\ rq[q].call # 0 /\ bc[rq[q].call].snap = {} /\ liveSet # {}

\* the step changes nothing of what a cleanup is there to change
NothingCleaned ==
    /\ UNCHANGED <<liveSet, meta, queue, activeUsers>>
    /\ \A u \in Members : userRec'[u].isOnline = userRec[u].isOnline

\* C28: with nothing else running, the second run of a connection's cleanup
\* changes neither the live set, nor a metadata record, nor a queue, nor
\* activeUsers, nor the isOnline flag of a user record, and enters no error
\* handler.  The second run is the one started by the close that follows the
\* timeout's res.end(); after a request error the two runs overlap, and then
\* what is left to do of either run once the other has come to its end
\* changes nothing.
C28_SecondCleanupNoOp ==
    [][\A c \in ConnIds :
           /\ (cl[c].run = 2 /\ cl'[c] # cl[c]) => NothingCleaned /\ cl'[c].bad = 0
           /\ (cl[c].pc = "done" /\ again[c].pc # "idle" /\ again'[c] # again[c]) =>
                  NothingCleaned /\ again'[c].bad = 0
           /\ (again[c].pc = "done" /\ cl'[c] # cl[c]) => NothingCleaned /\ cl'[c].bad = 0]_vars

\* the second run after a timeout has come to its end after it read the user
\* record for the presence update, and so have the two runs of another
\* connection after an error
C28_Witness ==
    /\ \E c \in ConnIds : cl[c].run = 2 /\ cl[c].pc = "done" /\ cl[c].user.exists
    /\ \E d \in ConnIds : /\ cl[d].via = "error" /\ cl[d].pc = "done"
                           /\ again[d].pc = "done" /\ again[d].user.exists

\* ------------------------------------------------------------------- C29
\* what the room view shows: the displayed messages, the participant count
\* and the typing-users map
RoomView(app) == <<app.shown, app.count, app.typingUsers>>

\* C29: a message, user_joined, user_left or typing event whose roomId is not
\* the id of the open room, or that arrives while no room is open, leaves the
\* displayed messages, the participant count and the typing-users map as
\* they were: the client applies such an event only to the room it names.
C29_OtherRoomEventIgnored ==
    [][\A data \in ServerEvents :
          (/\ OnMessage(data)
           /\ data.type \in RoomEventTypes
           /\ (appState.currentRoom = NoRoom \/ data.roomId # appState.currentRoom))
          => RoomView(appState') = RoomView(appState)]_vars

\* a room is open and shows events of its own, a user is shown typing, and
\* the last event received was one for another room, which was dropped
C29_Witness ==
    /\ appState.currentRoom # NoRoom
    /\ appState.skipped
    /\ Len(appState.shown) >= 2
    /\ appState.typingUsers # {}
    /\ \A i \in 1..Len(appState.shown) : appState.shown[i][2] = appState.currentRoom


\* ------------------------------------------------------------------- C30
\* the sessions that user u has opened
SessionsOf(u) == {c \in ConnIds : sess[c].pc # "free" /\ sess[c].userId = u}

\* every session of u has closed and its cleanup has completed
AllCleanedUp(u) == SessionsOf(u) # {} /\ \A c \in SessionsOf(u) : cl[c].pc = "done"

\* C30: once all the sessions of a user have closed and every one of their
\* cleanups has completed, in whatever order the steps of the cleanups were
\* interleaved, the user is not in activeUsers and the user's record has
\* isOnline = false.
C30_AllClosedOffline ==
    \A u \in UserIds :
        AllCleanedUp(u) => u \notin activeUsers /\ ~userRec[u].isOnline


\* ------------------------------------------------------------------- C31
\* the initialization of session c has failed, the request has been answered
\* 500 and no command of it is in flight
InitFailed(c) == sess[c].pc = "failed" /\ sess[c].pend = {}

\* C31: after a session initialization that failed once the connection id
\* was allocated, the live set does not contain the id and no metadata record
\* for it exists.
C31_FailedInitLeavesNothing ==
    \A c \in ConnIds : InitFailed(c) => c \notin liveSet /\ meta[c] = NoUser


\* ------------------------------------------------------------------- C32
\* C32: every Open session has its connection id in the live set: no
\* broadcast and no cleanup of another session removes it, also when store
\* commands fail.
C32_OpenSessionIsLive ==
    \A c \in ConnIds : IsOpen(c) => c \in liveSet


\* ------------------------------------------------------------------- C33
\* C33: for the same live set, the same queues and the same event, every copy
\* of the broadcast routine leaves the same contents in every queue when no
\* store command fails.
C33_CopiesEquivalent ==
    \A copy \in Copies : \A kind \in EventKinds :
        Queued(copy, liveSet, queue, Event(kind, 1, 0))
            = Queued("forums", liveSet, queue, Event(kind, 1, 0))


\* ------------------------------------------------------------------- C34
\* the join requests of user u for forum f that have called broadcastEvent
\* with a user_joined event
JoinBroadcasts(u, f) ==
    {r \in RequestIds : /\ rq[r].kind = "join" /\ rq[r].userId = u /\ rq[r].forumId = f
                        /\ rq[r].call # 0}

\* C34: the join requests of a user for a forum, of which the user was not a
\* participant, broadcast user_joined once in total, also when they run
\* concurrently.
C34_JoinedBroadcastOnce ==
    \A u \in UserIds : \A f \in Forums : Cardinality(JoinBroadcasts(u, f)) <= 1


\* ------------------------------------------------------------------- C35
\* C35: a leave request calls broadcastEvent with user_left only if its srem
\* removed the user from the participant set of the forum: a request for a
\* forum of which the user is not a participant, or for a forum that does not
\* exist, broadcasts nothing.
C35_LeftOnlyIfRemoved ==
    \A r \in RequestIds : (rq[r].kind = "leave" /\ rq[r].call # 0) => rq[r].removed

\* ------------------------------------------------------------------- C36
\* no join request and no leave request is in progress
NoJoinOrLeave == \A r \in RequestIds : rq[r].pc \in {"idle", "done"}

\* C36: whenever no join or leave request is in progress, a user is in the
\* participant set of a forum if and only if the forum is in the user's forum
\* set.
C36_MembershipSetsAgree ==
    NoJoinOrLeave =>
        \A u \in UserIds : \A f \in Forums : (u \in participants[f]) <=> (f \in userForums[u])


\* ------------------------------------------------------------------- C37
\* the send-message requests of user u that were answered 201
Sent(u) == {r \in RequestIds : rq[r].kind = "send" /\ rq[r].userId = u /\ rq[r].status = 201}

\* nothing that writes a user record is in progress
NoWriter ==
    /\ \A r \in RequestIds : rq[r].pc \in {"idle", "done"}
    /\ \A c \in ConnIds : sess[c].pc \in {"free", "open"} /\ cl[c].pc \in {"idle", "done"}

\* C37: the stored messageCount of a user is the number of the user's
\* send-message requests that returned success, however the requests were
\* interleaved with the sessions and cleanups that rewrite the user record.
C37_MessageCountExact ==
    NoWriter => \A u \in UserIds : userRec[u].messageCount = Cardinality(Sent(u))


\* ------------------------------------------------------------------- C38
\* C38: no two stored users have display names that are equal ignoring case,
\* however the create-user requests were interleaved.
C38_NamesUnique ==
    \A u, v \in Members :
        (u # v /\ userRec[u].exists /\ userRec[v].exists)
            => ~SameName(userRec[u].name, userRec[v].name)


\* ------------------------------------------------------------------- C39
\* the auth requests that passed the rate-limit check in window w
PassedIn(w) == {i \in AuthRequestIds : ar[i].window = w /\ ar[i].pc \in {"incr", "expire", "done"}
                                       /\ ar[i].status # 429}

\* C39: in one rate-limit window at most MAX_REQUESTS_PER_WINDOW auth
\* requests of a client address pass the rate-limit check, however the
\* requests were interleaved.
C39_AtMostLimitPass ==
    \A w \in 1..MaxWindows : Cardinality(PassedIn(w)) <= MaxRequestsPerWindow


\* ------------------------------------------------------------------- C40
\* every send-message request made so far has completed
AllSendsCompleted == \A r \in RequestIds : rq[r].pc \in {"idle", "done"}

RECURSIVE Newest(_, _)
\* the last n ids of a log of pushes, the most recent one first
Newest(log, n) ==
    IF n = 0 \/ log = <<>> THEN <<>>
    ELSE <<log[Len(log)]>> \o Newest(SubSeq(log, 1, Len(log) - 1), n - 1)

\* C40: once every send-message request has completed, the message-id list of
\* a forum holds at most MessagesKept ids, and they are the ids of the
\* messages pushed most recently, however the requests were interleaved.
C40_ListHoldsNewest ==
    AllSendsCompleted =>
        \A f \in Forums : /\ Len(forumMsgs[f]) <= MessagesKept
                          /\ forumMsgs[f] = Newest(sentLog[f], MessagesKept)

\* both requests have been answered 201 after pushing in the opposite order
\* of their arrival, and the two older ids have been trimmed away
C40_Witness ==
    /\ \A r \in RequestIds : rq[r].pc = "done" /\ rq[r].status = 201
    /\ \E f \in Forums : forumMsgs[f] = <<1, 2>> /\ Len(sentLog[f]) > MessagesKept


====
